---- MODULE Spec2Model ----
(***************************************************************************)
(* Model of the grid image stitcher of bin/stitch_crop_python.py:          *)
(* ImageStitcher.stitch_images,                                            *)
(* PhaseCorrelationStitcher.stitch_images_with_registration, the           *)
(* ImageProcessor operations and the per (well, channel) loop of main().   *)
(*                                                                         *)
(* Images are single-channel 2-D arrays, indexed from 0 as in numpy; the   *)
(* multichannel branches of the code apply the same operation to every     *)
(* channel.  Blend weights are kept as exact fractions over one common     *)
(* denominator (MaskDen), pixel sums as their numerators; the rounding of  *)
(* float32 arithmetic is not modelled.  The shift a phase correlation      *)
(* measures is any index of its correlation surface.  main() is modelled   *)
(* on the shapes of the images, SpecStitch and SpecProcessor on pixels.    *)
(***************************************************************************)
EXTENDS Integers, Sequences, FiniteSets, TLC

\* ------------------------------------------------------------------ bounds
MaxGrid == 2
MaxTile == 6

\* Overlap percentages tried (self.overlap_percent), whole percents.
Percents == {0, 25, 50, 75, 100, 125}

\* ------------------------------------------------------------ arithmetic
Min(a, b) == IF a <= b THEN a ELSE b
Max(a, b) == IF a >= b THEN a ELSE b

\* Python's int(): truncation toward zero of the quotient a / b (b > 0).
TruncDiv(a, b) == IF a >= 0 THEN a \div b ELSE -((-a) \div b)

RECURSIVE Gcd(_, _)
Gcd(a, b) == IF b = 0 THEN a ELSE Gcd(b, a % b)

\* A rational num / den (den > 0) in lowest terms, as a pair.
Frac(num, den) ==
    LET a == IF num >= 0 THEN num ELSE -num
        g == Gcd(a, den)
    IN  <<num \div g, den \div g>>

\* Python 3 round() of num / den (den > 0): the nearest integer, a tie to the
\* even one.
PyRound(num, den) ==
    LET q == num \div den
        r == num - q * den
    IN  IF 2 * r < den THEN q
        ELSE IF 2 * r > den THEN q + 1
        ELSE IF q % 2 = 0 THEN q ELSE q + 1

\* math.ceil of num / den (den > 0).
Ceil(num, den) == -((-num) \div den)

\* Python slicing a[start:stop] of an axis of length len: a negative index
\* counts from the end, and both ends are clamped into 0..len.
SliceIndex(i, len) == IF i < 0 THEN Max(i + len, 0) ELSE Min(i, len)
SliceLen(start, stop, len) == Max(SliceIndex(stop, len) - SliceIndex(start, len), 0)

\* numpy's in-place a[..] op= b along one axis: b must have the length of
\* the destination, or length 1 (broadcast); otherwise ValueError.
InPlaceFits(dest, src) == src = dest \/ src = 1

\* ------------------------------------------------------------- dtypes
\* numpy dtypes of the tiles: np.iinfo(dtype).max and np.issubdtype(., integer).
DTypes == {"uint16", "int16", "float32"}
IsInteger(dtype) == dtype \in {"uint16", "int16"}
IInfoMax(dtype) == IF dtype = "uint16" THEN 65535 ELSE 32767
IInfoMin(dtype) == IF dtype = "uint16" THEN 0 ELSE -32768

\* ------------------------------------------------------------------ state
VARIABLES
    grid,            \* the stitcher object: [rows, cols, pct] (grid_rows, grid_cols, overlap_percent)
    image_paths,     \* the tile files handed to the stitcher, in row-major order
    method,          \* "naive" (stitch_images) or "registration" (stitch_images_with_registration)
    pc,              \* position inside the running call
    first_img,       \* [h, w, dtype] of the first tile, once loaded
    overlap_pixels,  \* int(img_width * overlap_percent / 100)
    canvas,          \* accumulated weighted pixel sums (numerators over MaskDen)
    weight_map,      \* accumulated blend weights (numerators over MaskDen)
    idx,             \* index of the next tile to place
    positions,       \* registration: the (x, y) of each tile, numerators over PosDen
    refined,         \* registration: the positions handed to _filter_outliers
    reads,           \* number of tifffile.imread calls made so far
    ret,             \* outcome of the call: none, a raised error, or the mosaic
    call,            \* the ImageProcessor operation called, with its arguments
    input,           \* the array handed to the ImageProcessor operation
    result,          \* what the ImageProcessor operation returned or raised
    config,          \* main(): the parsed command line
    wells,           \* main(): the wells found, in sorted order
    channels,        \* main(): the (prefix, channel suffix) pairs found, in sorted order
    sites,           \* the input directory: per (well, channel), the site files found
    well_i,          \* main(): position of the well loop
    chan_i,          \* main(): position of the channel loop
    files,           \* the output directories: path -> image written there
    log,             \* the lines logged so far
    run,             \* main(): "loop", "done" (returned) or "crashed" (exception left main)
    legacy_pc,       \* legacy macro: position inside savefile or the presuflist filter
    legacy_compress, \* legacy savefile: its compress argument
    attemptcount,    \* legacy savefile: the attempt counter
    io,              \* the file system: whether the n-th write of an image succeeds
    writes,          \* legacy savefile: IJ.saveAs / Exporter.run calls made so far
    presuflist,      \* legacy macro: the (prefix, channel suffix) list
    presuf_i,        \* legacy macro: index the list iterator of the filter loop reads next
    legacy_log       \* legacy macro: the lines logged so far

stitchVars == <<grid, image_paths, method, pc, first_img, overlap_pixels,
                canvas, weight_map, idx, positions, refined, reads, ret>>
procVars == <<call, input, result>>

mainVars == <<config, wells, channels, sites, well_i, chan_i, files, log, run>>

legacyVars == <<legacy_pc, legacy_compress, attemptcount, io, writes, presuflist,
                presuf_i, legacy_log>>

vars == <<stitchVars, procVars, mainVars, legacyVars>>

NoImage == [h |-> 0, w |-> 0, dtype |-> "none"]
NoRet == [kind |-> "none"]
NoCall == [fn |-> "none"]
NoArray == [h |-> 0, w |-> 0, px |-> <<>>]

\* No run of main() in progress.
MainIdle ==
    /\ config = [grid_rows |-> 0] /\ wells = <<>> /\ channels = <<>>
    /\ sites = <<>> /\ well_i = 0 /\ chan_i = 0
    /\ files = <<>> /\ log = <<>> /\ run = "idle"

\* No legacy macro step in progress.
LegacyIdle ==
    /\ legacy_pc = "idle" /\ legacy_compress = "" /\ attemptcount = 0
    /\ io = <<>> /\ writes = 0
    /\ presuflist = <<>> /\ presuf_i = 0 /\ legacy_log = <<>>

\* An exception leaving the call: its class and the statement raising it.
Raised(error, at) == [kind |-> "raised", error |-> error, at |-> at]

\* ------------------------------------------------------------ tile inputs
\* Side of the frame the test source image is defined on: wide enough for
\* every mosaic of MaxGrid tiles of MaxTile pixels per axis.
SrcStride == MaxGrid * MaxTile + 1

\* Pixel of the synthetic source image: all pixels of one frame differ.
Src(off, y, x) == off + y * SrcStride + x

\* First pixel values tried per dtype (int16 tiles hold negative values,
\* float32 tiles hold values above 1.0).
Offsets(dtype) ==
    IF dtype = "uint16" THEN {1, 1000}
    ELSE IF dtype = "int16" THEN {-5} ELSE {0}

\* ndarray returned by tifffile.imread for the tile at grid position
\* (row, col): the crop of the source at the geometric placement.
TileImage(off, dtype, H, W, n, row, col) ==
    [h |-> H, w |-> W, dtype |-> dtype,
     px |-> [p \in (0..H-1) \X (0..W-1) |->
                Src(off, row * (H - n) + p[1], col * (W - n) + p[2])]]

\* A tile without features: every pixel holds the same value.
FlatTile(off, dtype, H, W) ==
    [h |-> H, w |-> W, dtype |-> dtype,
     px |-> [p \in (0..H-1) \X (0..W-1) |-> off]]

\* What the tiles of a call hold: crops of the source image, flat tiles, or
\* crops each 50 brighter than the tile before it.
Contents == {"crops", "flat", "shaded"}

\* How the last tile of a call departs from the first: not at all, by its
\* dtype, by a shape numpy broadcasts (one row), by one it does not (one row
\* more).
OddTiles == {"none", "dtype", "row", "taller"}
OddTile(odd, off, dtype, H, W, n, row, col) ==
    IF odd = "dtype" THEN TileImage(off, "int16", H, W, n, row, col)
    ELSE IF odd = "row" THEN TileImage(off, dtype, 1, W, n, row, col)
    ELSE IF odd = "taller" THEN TileImage(off, dtype, H + 1, W, n, row, col)
    ELSE TileImage(off, dtype, H, W, n, row, col)

\* int(img_width * self.overlap_percent / 100)
OverlapPixels(img_width, pct) == TruncDiv(img_width * pct, 100)

\* ------------------------------------------------------------ blend mask
\* np.linspace(1, 0, n)[i] and np.linspace(0, 1, n)[i] as numerators over
\* RampDen(n); linspace of one sample is its start value.
RampDen(n) == IF n >= 2 THEN n - 1 ELSE 1
FadeOutNum(i, n) == IF n >= 2 THEN (n - 1) - i ELSE 1
\* Mutant: the fade-in of the neighbouring tile left out (full weight).
FadeInNum_NoFade(i, n) == RampDen(n)
FadeInNum(i, n) == IF n >= 2 THEN i ELSE 0

\* Common denominator of a blend mask: four ramp factors.
MaskDen(n) == RampDen(n) * RampDen(n) * RampDen(n) * RampDen(n)

\* The in-place product blend_mask[..] *= ramp raises ValueError when the
\* sliced band and the ramp differ in length: the slice [-n:] or [:n] has
\* min(n, dim) entries for n >= 1 and dim entries for n = 0, the ramp n.
RampFits(n, dim) == 1 <= n /\ n <= dim

MaskRaises(rows, cols, H, W, n, row, col) ==
    \/ (col < cols - 1 \/ col > 0) /\ ~RampFits(n, W)
    \/ (row < rows - 1 \/ row > 0) /\ ~RampFits(n, H)

\* Mutant: where two faded edges meet, the smaller factor instead of the product.
BlendMask_MinCorner(rows, cols, H, W, n, row, col, y, x) ==
    LET d == RampDen(n)
        right  == IF col < cols - 1 /\ x >= W - n THEN FadeOutNum(x - (W - n), n) ELSE d
        bottom == IF row < rows - 1 /\ y >= H - n THEN FadeOutNum(y - (H - n), n) ELSE d
        left   == IF col > 0 /\ x < n THEN FadeInNum(x, n) ELSE d
        top    == IF row > 0 /\ y < n THEN FadeInNum(y, n) ELSE d
    IN  Min(Min(right, left), Min(bottom, top)) * d * d * d
\* blend_mask[y, x] after the four edge fades (right, bottom, left, top).
BlendMask(rows, cols, H, W, n, row, col, y, x) ==
    LET d == RampDen(n)
        right  == IF col < cols - 1 /\ x >= W - n THEN FadeOutNum(x - (W - n), n) ELSE d
        bottom == IF row < rows - 1 /\ y >= H - n THEN FadeOutNum(y - (H - n), n) ELSE d
        left   == IF col > 0 /\ x < n THEN FadeInNum(x, n) ELSE d
        top    == IF row > 0 /\ y < n THEN FadeInNum(y, n) ELSE d
    IN  right * bottom * left * top

\* ------------------------------------------------- ImageStitcher.stitch_images
\* Mutant: the weighted sum left undivided.
Normalized_Undivided(cnum, wnum) == Frac(cnum, 1)
\* canvas / np.maximum(weight_map, 1e-10): a zero weight only arises where
\* every contribution was multiplied by zero, so the quotient is 0 there.
Normalized(cnum, wnum) == IF wnum = 0 THEN Frac(0, 1) ELSE Frac(cnum, wnum)

\* Mutant: one stride too many.
StitchedWidth_OneMore(cols, W, n) == W + cols * (W - n)
StitchedWidth(cols, W, n) == W + (cols - 1) * (W - n)
StitchedHeight(rows, H, n) == H + (rows - 1) * (H - n)

\* np.zeros((h, w)): an array keeps its shape beside its entries.
Zeros(h, w) == [h |-> h, w |-> w, px |-> [p \in (0..h-1) \X (0..w-1) |-> 0]]

\* if len(image_paths) != self.grid_rows * self.grid_cols: raise ValueError
\* Mutant: only too few tiles are refused.
CountMismatch_TooFew == Len(image_paths) < grid.rows * grid.cols
CountMismatch == Len(image_paths) # grid.rows * grid.cols

StitchCheck ==
    /\ pc = "call"
    /\ method = "naive"
    /\ IF CountMismatch
       THEN /\ ret' = Raised("ValueError", "count")
            /\ pc' = "raised"
       ELSE /\ ret' = ret
            /\ pc' = "first"
    /\ UNCHANGED <<grid, image_paths, method, first_img, overlap_pixels,
                   canvas, weight_map, idx, positions, refined, reads>>

\* first_img = imread(image_paths[0]); overlap, stitched size, zeroed canvas
\* and weight map.  np.zeros raises ValueError on a negative dimension.
StitchLoadFirst ==
    /\ pc = "first"
    /\ LET img == image_paths[1]
           n == OverlapPixels(img.w, grid.pct)
           sh == StitchedHeight(grid.rows, img.h, n)
           sw == StitchedWidth(grid.cols, img.w, n)
       IN  /\ reads' = reads + 1
           /\ first_img' = [h |-> img.h, w |-> img.w, dtype |-> img.dtype]
           /\ overlap_pixels' = n
           /\ IF sh < 0 \/ sw < 0
              THEN /\ ret' = Raised("ValueError", "zeros")
                   /\ pc' = "raised"
                   /\ UNCHANGED <<canvas, weight_map, idx>>
              ELSE /\ canvas' = Zeros(sh, sw)
                   /\ weight_map' = Zeros(sh, sw)
                   /\ idx' = 0
                   /\ pc' = "place"
                   /\ ret' = ret
    /\ UNCHANGED <<grid, image_paths, method, positions, refined>>

\* canvas[y_start:y_end, x_start:x_end] += img * blend_mask, with a mask and
\* a destination of the first tile's shape (H, W) and a tile of shape
\* (h, w): the product broadcasts an axis of length 1, and the in-place sum
\* takes a product of the destination's shape (or of length 1 on an axis);
\* otherwise ValueError.  The tile's dtype plays no part: astype(float32).
ProductFits(H, W, h, w) == InPlaceFits(H, h) /\ InPlaceFits(W, w)

\* One pass of the row/col loop: load tile idx, build its blend mask, add
\* img * blend_mask to the canvas and blend_mask to the weight map.
StitchPlace ==
    /\ pc = "place"
    /\ idx < grid.rows * grid.cols
    /\ LET row == idx \div grid.cols
           col == idx % grid.cols
           H == first_img.h
           W == first_img.w
           n == overlap_pixels
           img == image_paths[idx + 1]
           y_start == row * (H - n)
           x_start == col * (W - n)
           Inside(p) == /\ y_start <= p[1] /\ p[1] < y_start + H
                        /\ x_start <= p[2] /\ p[2] < x_start + W
           M(p) == BlendMask(grid.rows, grid.cols, H, W, n, row, col,
                             p[1] - y_start, p[2] - x_start)
           From(p) == <<IF img.h = 1 THEN 0 ELSE p[1] - y_start,
                        IF img.w = 1 THEN 0 ELSE p[2] - x_start>>
       IN  /\ reads' = reads + 1
           /\ IF MaskRaises(grid.rows, grid.cols, H, W, n, row, col)
              THEN /\ ret' = Raised("ValueError", "blend_mask")
                   /\ pc' = "raised"
                   /\ UNCHANGED <<canvas, weight_map, idx>>
              ELSE IF ~ProductFits(H, W, img.h, img.w)
              THEN /\ ret' = Raised("ValueError", "accumulate")
                   /\ pc' = "raised"
                   /\ UNCHANGED <<canvas, weight_map, idx>>
              ELSE /\ canvas' = [canvas EXCEPT !.px = [p \in DOMAIN canvas.px |->
                        IF Inside(p)
                        THEN canvas.px[p] + img.px[From(p)] * M(p)
                        ELSE canvas.px[p]]]
                   /\ weight_map' = [weight_map EXCEPT !.px = [p \in DOMAIN weight_map.px |->
                        IF Inside(p) THEN weight_map.px[p] + M(p) ELSE weight_map.px[p]]]
                   /\ idx' = idx + 1
                   /\ UNCHANGED <<pc, ret>>
    /\ UNCHANGED <<grid, image_paths, method, first_img, overlap_pixels, positions, refined>>

\* np.clip(v, 0, iinfo(dtype).max if integer else 1.0).astype(dtype); the
\* cast of a non-negative float to an integer dtype drops the fraction.
ClipCast(dtype, v) ==
    LET hi == IF IsInteger(dtype) THEN IInfoMax(dtype) ELSE 1
        clipped == IF v[1] < 0 THEN <<0, 1>>
                   ELSE IF v[1] > hi * v[2] THEN <<hi, 1>> ELSE v
    IN  IF IsInteger(dtype) THEN <<clipped[1] \div clipped[2], 1>> ELSE clipped

StitchFinish ==
    /\ pc = "place"
    /\ idx = grid.rows * grid.cols
    /\ ret' = [kind |-> "mosaic",
               h |-> canvas.h,
               w |-> canvas.w,
               dtype |-> first_img.dtype,
               px |-> [p \in DOMAIN canvas.px |->
                         ClipCast(first_img.dtype,
                                  Normalized(canvas.px[p], weight_map.px[p]))]]
    /\ pc' = "returned"
    /\ UNCHANGED <<grid, image_paths, method, first_img, overlap_pixels,
                   canvas, weight_map, idx, positions, refined, reads>>

\* ------------------------------------------- PhaseCorrelationStitcher
\* absolute_displacement_threshold = 3.50, as a fraction.
AbsoluteDisplacementThreshold == <<7, 2>>

\* Tile positions are held as numerators over PosDen: the mean of one to
\* four neighbours of integer coordinates is a multiple of 1/12.
PosDen == 12

\* The registration calls are tried on grids of at most this many tiles.
MaxRegTiles == 4

\* At most this many neighbouring pairs of a call measure a shift other than
\* the one agreeing with the nominal overlap (0 where the surface allows it).
MaxShifted == 1

\* compute_phase_correlation raises ValueError when overlap_pixels is 0:
\* img2[:, :0] is empty and the transform of an empty region is refused.
CorrelationRaises(n, dim) == SliceLen(0, n, dim) = 0

\* img.max() == img.min(): the normalised image is all zeros.
IsFlat(img) == \A p, q \in DOMAIN img.px : img.px[p] = img.px[q]

\* peak index - centre, for a correlation surface of len samples along the
\* axis: the peak of the correlation of two tiles with content can sit at
\* any index; the correlation with a flat tile is zero everywhere and argmax
\* returns index 0.
PeakShifts(img1, img2, len) ==
    IF IsFlat(img1) \/ IsFlat(img2) THEN {-(len \div 2)}
    ELSE (-(len \div 2)) .. (len - 1 - (len \div 2))

\* The neighbouring pairs correlated: <<row, col>> names the left (or upper)
\* tile of the pair.
HorizontalPairs(rows, cols) == (0..rows-1) \X (0..cols-2)
VerticalPairs(rows, cols) == (0..rows-2) \X (0..cols-1)

\* positions[idx2][0] = positions[idx1][0] + img_width - (overlap_pixels - shift_x),
\* chained along a row from x = 0; likewise down a column from y = 0.
RECURSIVE ChainX(_, _, _, _, _)
ChainX(shift_x, row, col, W, n) ==
    IF col = 0 THEN 0
    ELSE ChainX(shift_x, row, col - 1, W, n) + W - (n - shift_x[<<row, col - 1>>])
RECURSIVE ChainY(_, _, _, _, _)
ChainY(shift_y, row, col, H, n) ==
    IF row = 0 THEN 0
    ELSE ChainY(shift_y, row - 1, col, H, n) + H - (n - shift_y[<<row - 1, col>>])

\* The positions before filtering, in row-major order, over PosDen.
RefinedPositions(rows, cols, H, W, n, shift_x, shift_y) ==
    [i \in 1..rows * cols |->
        LET row == (i - 1) \div cols
            col == (i - 1) % cols
        IN  <<PosDen * ChainX(shift_x, row, col, W, n),
              PosDen * ChainY(shift_y, row, col, H, n)>>]

\* Indices (1-based) of the grid neighbours of tile i.
Neighbors(rows, cols, i) ==
    LET row == (i - 1) \div cols
        col == (i - 1) % cols
    IN  (IF col > 0 THEN {i - 1} ELSE {})
        \cup (IF col < cols - 1 THEN {i + 1} ELSE {})
        \cup (IF row > 0 THEN {i - cols} ELSE {})
        \cup (IF row < rows - 1 THEN {i + cols} ELSE {})

RECURSIVE SumOver(_, _, _)
SumOver(pos, axis, set) ==
    IF set = {} THEN 0
    ELSE LET i == CHOOSE i \in set : TRUE
         IN  pos[i][axis] + SumOver(pos, axis, set \ {i})

\* np.mean(neighbors, axis=0): each coordinate over PosDen.
MeanNeighbor(pos, nb) ==
    <<SumOver(pos, 1, nb) \div Cardinality(nb), SumOver(pos, 2, nb) \div Cardinality(nb)>>

\* Mutant: a tile exactly at the threshold is moved too.
ExceedsThreshold_NotStrict(p, m) ==
    LET dx == p[1] - m[1]
        dy == p[2] - m[2]
        t == AbsoluteDisplacementThreshold
    IN  t[2] * t[2] * (dx * dx + dy * dy) >= t[1] * t[1] * PosDen * PosDen
\* displacement > self.absolute_displacement_threshold, compared by squares.
ExceedsThreshold(p, m) ==
    LET dx == p[1] - m[1]
        dy == p[2] - m[2]
        t == AbsoluteDisplacementThreshold
    IN  t[2] * t[2] * (dx * dx + dy * dy) > t[1] * t[1] * PosDen * PosDen

\* _filter_outliers: a tile further than the threshold from the mean of its
\* neighbours (taken from the unfiltered positions) is moved to that mean.
FilterOutliers(rows, cols, pos) ==
    [i \in DOMAIN pos |->
        LET nb == Neighbors(rows, cols, i)
        IN  IF nb # {} /\ ExceedsThreshold(pos[i], MeanNeighbor(pos, nb))
            THEN MeanNeighbor(pos, nb)
            ELSE pos[i]]

\* if len(image_paths) != self.grid_rows * self.grid_cols: raise ValueError
RegCheck ==
    /\ pc = "call"
    /\ method = "registration"
    /\ IF CountMismatch
       THEN /\ ret' = Raised("ValueError", "count")
            /\ pc' = "raised"
       ELSE /\ ret' = ret
            /\ pc' = "positions"
    /\ UNCHANGED <<grid, image_paths, method, first_img, overlap_pixels,
                   canvas, weight_map, idx, positions, refined, reads>>

\* compute_tile_positions: loads every tile, measures the shift of each
\* neighbouring pair, chains the positions and filters outliers.
RegPositions ==
    /\ pc = "positions"
    /\ LET rows == grid.rows
           cols == grid.cols
           H == image_paths[1].h
           W == image_paths[1].w
           n == OverlapPixels(W, grid.pct)
           Tile(row, col) == image_paths[row * cols + col + 1]
       IN  /\ reads' = reads + Len(image_paths)
           /\ IF \/ HorizontalPairs(rows, cols) # {} /\ CorrelationRaises(n, W)
                 \/ VerticalPairs(rows, cols) # {} /\ CorrelationRaises(n, H)
              THEN /\ ret' = Raised("ValueError", "phase_correlation")
                   /\ pc' = "raised"
                   /\ UNCHANGED <<positions, refined>>
              ELSE /\ \E odd \in SUBSET (({"h"} \X HorizontalPairs(rows, cols))
                                         \cup ({"v"} \X VerticalPairs(rows, cols))) :
                        /\ Cardinality(odd) <= MaxShifted
                        /\ \E measured \in [odd -> (-(MaxTile \div 2)) .. MaxTile] :
                             LET Other(q) == IF q[1] = "h" THEN Tile(q[2][1], q[2][2] + 1)
                                             ELSE Tile(q[2][1] + 1, q[2][2])
                                 Peaks(q) == PeakShifts(Tile(q[2][1], q[2][2]), Other(q),
                                                IF q[1] = "h" THEN SliceLen(-n, W, W)
                                                ELSE SliceLen(-n, H, H))
                                 Agreeing(q) == IF 0 \in Peaks(q) THEN 0
                                                ELSE CHOOSE s \in Peaks(q) : TRUE
                                 Shift(q) == IF q \in odd THEN measured[q] ELSE Agreeing(q)
                                 shift_x == [q \in HorizontalPairs(rows, cols) |->
                                                Shift(<<"h", q>>)]
                                 shift_y == [q \in VerticalPairs(rows, cols) |->
                                                Shift(<<"v", q>>)]
                             IN  /\ \A q \in odd : /\ measured[q] \in Peaks(q)
                                                   /\ measured[q] # Agreeing(q)
                                 /\ refined' = RefinedPositions(rows, cols, H, W, n,
                                                                 shift_x, shift_y)
                                 /\ positions' = FilterOutliers(rows, cols,
                                      RefinedPositions(rows, cols, H, W, n, shift_x, shift_y))
                   /\ pc' = "reg_first"
                   /\ ret' = ret
    /\ UNCHANGED <<grid, image_paths, method, first_img, overlap_pixels,
                   canvas, weight_map, idx>>

RECURSIVE MaxOver(_, _, _)
MaxOver(pos, axis, upto) ==
    IF upto = 1 THEN pos[1][axis]
    ELSE Max(pos[upto][axis], MaxOver(pos, axis, upto - 1))

\* first_img = imread(image_paths[0]); the canvas spans the largest position
\* plus one tile, rounded up.
RegLoadFirst ==
    /\ pc = "reg_first"
    /\ LET img == image_paths[1]
           canvas_width == Ceil(MaxOver(positions, 1, Len(positions)) + PosDen * img.w, PosDen)
           canvas_height == Ceil(MaxOver(positions, 2, Len(positions)) + PosDen * img.h, PosDen)
       IN  /\ reads' = reads + 1
           /\ first_img' = [h |-> img.h, w |-> img.w, dtype |-> img.dtype]
           /\ IF canvas_height < 0 \/ canvas_width < 0
              THEN /\ ret' = Raised("ValueError", "zeros")
                   /\ pc' = "raised"
                   /\ UNCHANGED <<canvas, weight_map, idx>>
              ELSE /\ canvas' = Zeros(canvas_height, canvas_width)
                   /\ weight_map' = Zeros(canvas_height, canvas_width)
                   /\ idx' = 0
                   /\ pc' = "reg_place"
                   /\ ret' = ret
    /\ UNCHANGED <<grid, image_paths, method, overlap_pixels, positions, refined>>

\* The registration blend mask of shape (mh, mw): an edge is faded only when
\* the mask is at least overlap_pixels long on that axis.
RegMaskRaises(rows, cols, mh, mw, n, row, col) ==
    \/ (col < cols - 1 \/ col > 0) /\ mw >= n /\ ~InPlaceFits(SliceLen(-n, mw, mw), n)
    \/ (row < rows - 1 \/ row > 0) /\ mh >= n /\ ~InPlaceFits(SliceLen(-n, mh, mh), n)

RegBlendMask(rows, cols, mh, mw, n, row, col, y, x) ==
    LET d == RampDen(n)
        right  == IF col < cols - 1 /\ mw >= n /\ x >= mw - n
                  THEN FadeOutNum(x - (mw - n), n) ELSE d
        bottom == IF row < rows - 1 /\ mh >= n /\ y >= mh - n
                  THEN FadeOutNum(y - (mh - n), n) ELSE d
        left   == IF col > 0 /\ mw >= n /\ x < n THEN FadeInNum(x, n) ELSE d
        top    == IF row > 0 /\ mh >= n /\ y < n THEN FadeInNum(y, n) ELSE d
    IN  right * bottom * left * top

\* One pass of the placement loop: load tile idx, round its position, crop
\* it to the canvas, build its blend mask, add img_region * blend_mask to the
\* canvas and blend_mask to the weight map.
RegPlace ==
    /\ pc = "reg_place"
    /\ idx < Min(Len(image_paths), Len(positions))
    /\ LET H == first_img.h
           W == first_img.w
           img == image_paths[idx + 1]
           x_start == PyRound(positions[idx + 1][1], PosDen)
           y_start == PyRound(positions[idx + 1][2], PosDen)
           x_end == Min(x_start + W, canvas.w)
           y_end == Min(y_start + H, canvas.h)
           img_x_end == W - (x_start + W - x_end)
           img_y_end == H - (y_start + H - y_end)
           n == OverlapPixels(W, grid.pct)
           row == idx \div grid.cols
           col == idx % grid.cols
           th == SliceLen(y_start, y_end, canvas.h)
           tw == SliceLen(x_start, x_end, canvas.w)
           ty0 == SliceIndex(y_start, canvas.h)
           tx0 == SliceIndex(x_start, canvas.w)
           Inside(p) == /\ ty0 <= p[1] /\ p[1] < ty0 + th
                        /\ tx0 <= p[2] /\ p[2] < tx0 + tw
           From(p) == <<IF img_y_end = 1 THEN 0 ELSE p[1] - ty0,
                        IF img_x_end = 1 THEN 0 ELSE p[2] - tx0>>
           M(p) == RegBlendMask(grid.rows, grid.cols, img_y_end, img_x_end, n, row, col,
                                From(p)[1], From(p)[2])
       IN  /\ reads' = reads + 1
           /\ overlap_pixels' = n
           /\ IF img_y_end < 0 \/ img_x_end < 0
              THEN /\ ret' = Raised("ValueError", "ones")
                   /\ pc' = "raised"
                   /\ UNCHANGED <<canvas, weight_map, idx>>
              ELSE IF RegMaskRaises(grid.rows, grid.cols, img_y_end, img_x_end, n, row, col)
              THEN /\ ret' = Raised("ValueError", "blend_mask")
                   /\ pc' = "raised"
                   /\ UNCHANGED <<canvas, weight_map, idx>>
              ELSE IF ~(InPlaceFits(th, img_y_end) /\ InPlaceFits(tw, img_x_end))
              THEN /\ ret' = Raised("ValueError", "paste")
                   /\ pc' = "raised"
                   /\ UNCHANGED <<canvas, weight_map, idx>>
              ELSE /\ canvas' = [canvas EXCEPT !.px = [p \in DOMAIN canvas.px |->
                        IF Inside(p) THEN canvas.px[p] + img.px[From(p)] * M(p)
                        ELSE canvas.px[p]]]
                   /\ weight_map' = [weight_map EXCEPT !.px = [p \in DOMAIN weight_map.px |->
                        IF Inside(p) THEN weight_map.px[p] + M(p) ELSE weight_map.px[p]]]
                   /\ idx' = idx + 1
                   /\ UNCHANGED <<pc, ret>>
    /\ UNCHANGED <<grid, image_paths, method, first_img, positions, refined>>

\* Normalise by the weight map, clip, cast back to the tiles' dtype.
RegFinish ==
    /\ pc = "reg_place"
    /\ idx = Min(Len(image_paths), Len(positions))
    /\ ret' = [kind |-> "mosaic",
               h |-> canvas.h,
               w |-> canvas.w,
               dtype |-> first_img.dtype,
               px |-> [p \in DOMAIN canvas.px |->
                         ClipCast(first_img.dtype,
                                  Normalized(canvas.px[p], weight_map.px[p]))]]
    /\ pc' = "returned"
    /\ UNCHANGED <<grid, image_paths, method, first_img, overlap_pixels,
                   canvas, weight_map, idx, positions, refined, reads>>

\* ------------------------------------------------------------ stitch calls
\* One call of a stitcher on a grid of tiles cut from the source image, with
\* the right number of tiles, one too few or one too many.  The registration
\* calls are tried on uint16 tiles, and on flat tiles too; the naive calls
\* also with a last tile of another dtype or shape.
StitchInit ==
    /\ call = NoCall /\ input = NoArray /\ result = NoRet
    /\ MainIdle
    /\ LegacyIdle
    /\ \E rows \in 1..MaxGrid, cols \in 1..MaxGrid, H \in 1..MaxTile, W \in 1..MaxTile,
       pct \in Percents, dtype \in DTypes, extra \in {-1, 0, 1},
       m \in {"naive", "registration"}, content \in Contents, odd \in OddTiles :
      \E off \in Offsets(dtype) :
        LET n == OverlapPixels(W, pct)
            count == rows * cols + extra
        IN  /\ m = "registration" =>
                  dtype = "uint16" /\ off = 1 /\ rows * cols <= MaxRegTiles
            /\ content = "flat" =>
                  extra = 0 /\ dtype = "uint16" /\ off = 1 /\ odd = "none"
            /\ content = "shaded" =>
                  /\ m = "naive" /\ extra = 0 /\ rows * cols >= 2
                  /\ dtype = "uint16" /\ off = 1 /\ odd = "none"
            /\ odd # "none" =>
                  /\ m = "naive" /\ extra = 0 /\ rows * cols >= 2
                  /\ dtype = "uint16" /\ off = 1
                  /\ odd = "row" => H >= 2
            /\ grid = [rows |-> rows, cols |-> cols, pct |-> pct]
            /\ image_paths = [k \in 1..count |->
                  IF content = "flat" THEN FlatTile(off, dtype, H, W)
                  ELSE IF content = "shaded"
                  THEN TileImage(off + 50 * (k - 1), dtype, H, W, n,
                                 ((k - 1) \div cols) % rows, (k - 1) % cols)
                  ELSE IF k = count
                  THEN OddTile(odd, off, dtype, H, W, n,
                               ((k - 1) \div cols) % rows, (k - 1) % cols)
                  ELSE TileImage(off, dtype, H, W, n,
                                 ((k - 1) \div cols) % rows, (k - 1) % cols)]
            /\ method = m
            /\ pc = "call"
            /\ first_img = NoImage
            /\ overlap_pixels = 0
            /\ canvas = Zeros(0, 0)
            /\ weight_map = Zeros(0, 0)
            /\ idx = 0
            /\ positions = <<>>
            /\ refined = <<>>
            /\ reads = 0
            /\ ret = NoRet

StitchNext ==
    \/ StitchCheck /\ UNCHANGED <<procVars, mainVars, legacyVars>>
    \/ StitchLoadFirst /\ UNCHANGED <<procVars, mainVars, legacyVars>>
    \/ StitchPlace /\ UNCHANGED <<procVars, mainVars, legacyVars>>
    \/ StitchFinish /\ UNCHANGED <<procVars, mainVars, legacyVars>>
    \/ RegCheck /\ UNCHANGED <<procVars, mainVars, legacyVars>>
    \/ RegPositions /\ UNCHANGED <<procVars, mainVars, legacyVars>>
    \/ RegLoadFirst /\ UNCHANGED <<procVars, mainVars, legacyVars>>
    \/ RegPlace /\ UNCHANGED <<procVars, mainVars, legacyVars>>
    \/ RegFinish /\ UNCHANGED <<procVars, mainVars, legacyVars>>

SpecStitch == StitchInit /\ [][StitchNext]_vars

\* ------------------------------------------------- _filter_outliers calls
\* One call of _filter_outliers on a grid of at most MaxFilterTiles tiles
\* whose positions are drawn from a few whole-pixel coordinates.
MaxFilterTiles == 3
FilterXs == {0, 1, 4, 8}
FilterYs == {0, 3}

FilterInit ==
    /\ call = NoCall /\ input = NoArray /\ result = NoRet
    /\ MainIdle
    /\ LegacyIdle
    /\ image_paths = <<>> /\ method = "filter" /\ pc = "call"
    /\ first_img = NoImage /\ overlap_pixels = 0
    /\ canvas = Zeros(0, 0) /\ weight_map = Zeros(0, 0)
    /\ idx = 0 /\ positions = <<>> /\ reads = 0 /\ ret = NoRet
    /\ \E rows \in 1..MaxFilterTiles, cols \in 1..MaxFilterTiles :
          /\ rows * cols <= MaxFilterTiles
          /\ grid = [rows |-> rows, cols |-> cols, pct |-> 0]
          /\ refined \in [1..rows * cols ->
                            {<<PosDen * x, PosDen * y>> : x \in FilterXs, y \in FilterYs}]

\* positions = self._filter_outliers(positions)
FilterCall ==
    /\ pc = "call"
    /\ method = "filter"
    /\ positions' = FilterOutliers(grid.rows, grid.cols, refined)
    /\ pc' = "returned"
    /\ UNCHANGED <<grid, image_paths, method, first_img, overlap_pixels,
                   canvas, weight_map, idx, refined, reads, ret>>

FilterNext == FilterCall /\ UNCHANGED <<procVars, mainVars, legacyVars>>

SpecFilter == FilterInit /\ [][FilterNext]_vars

\* ------------------------------------------------------- ImageProcessor
\* Bounds of the ImageProcessor calls tried.
MaxImage == 4
MaxTarget == 4
MaxSide == 3

\* y_offset / x_offset of adjust_canvas; // is floor division.
\* Mutant: the image centred whatever the position.
CanvasOffset_Centred(position, target_size, dim) == (target_size - dim) \div 2
CanvasOffset(position, target_size, dim) ==
    IF position = "center" THEN (target_size - dim) \div 2 ELSE 0

\* ImageProcessor.adjust_canvas(img, target_size, position): a zeroed
\* target_size x target_size canvas, and the assignment
\*   canvas[y_offset:y_offset + h_end, x_offset:x_offset + w_end] = img[:h_end, :w_end]
\* which raises ValueError unless every axis of the right-hand side has the
\* length of the sliced canvas axis or length 1 (numpy broadcasting).
AssignFits(dim, target_size, position) ==
    LET offset == CanvasOffset(position, target_size, dim)
        end == Min(dim, target_size)
    IN  end = SliceLen(offset, offset + end, target_size) \/ end = 1

AdjustCanvas(image, target_size, position) ==
    LET y_offset == CanvasOffset(position, target_size, image.h)
        x_offset == CanvasOffset(position, target_size, image.w)
        h_end == Min(image.h, target_size)
        w_end == Min(image.w, target_size)
        y0 == SliceIndex(y_offset, target_size)
        x0 == SliceIndex(x_offset, target_size)
        dh == SliceLen(y_offset, y_offset + h_end, target_size)
        dw == SliceLen(x_offset, x_offset + w_end, target_size)
    IN  IF target_size < 0
        THEN Raised("ValueError", "zeros")
        ELSE IF ~(AssignFits(image.h, target_size, position)
                  /\ AssignFits(image.w, target_size, position))
        THEN Raised("ValueError", "setitem")
        ELSE [kind |-> "array", h |-> target_size, w |-> target_size,
              px |-> [p \in (0..target_size-1) \X (0..target_size-1) |->
                        IF /\ y0 <= p[1] /\ p[1] < y0 + dh
                           /\ x0 <= p[2] /\ p[2] < x0 + dw
                        THEN image.px[<<IF h_end = 1 THEN 0 ELSE p[1] - y0,
                                        IF w_end = 1 THEN 0 ELSE p[2] - x0>>]
                        ELSE 0]]

\* tile_height / tile_width of crop_into_tiles.
\* Mutant: the remainder spread by rounding the tile size up.
TileDim_RoundUp(dim, tiles_per_side) == (dim + tiles_per_side - 1) \div tiles_per_side
TileDim(dim, tiles_per_side) == dim \div tiles_per_side

\* The slice img[y_start:y_end, x_start:x_end] taken for (row, col): the
\* rows and columns it selects.
TileSlice(height, width, tiles_per_side, row, col) ==
    LET tile_height == TileDim(height, tiles_per_side)
        tile_width == TileDim(width, tiles_per_side)
        y_start == row * tile_height
        x_start == col * tile_width
    IN  [y0 |-> SliceIndex(y_start, height),
         x0 |-> SliceIndex(x_start, width),
         h |-> SliceLen(y_start, y_start + tile_height, height),
         w |-> SliceLen(x_start, x_start + tile_width, width)]

\* The inner loop "for col in range(tiles_per_side)" of one row, and the outer
\* loop over the rows, each appending to the list in turn.
\* Mutant: columns in the outer loop (column-major order).
RowOfTiles_Transposed(height, width, tiles_per_side, row) ==
    [c \in 1..tiles_per_side |-> TileSlice(height, width, tiles_per_side, c - 1, row)]
RowOfTiles(height, width, tiles_per_side, row) ==
    [c \in 1..tiles_per_side |-> TileSlice(height, width, tiles_per_side, row, c - 1)]

RECURSIVE TileRows(_, _, _, _)
TileRows(height, width, tiles_per_side, rows_done) ==
    IF rows_done = 0 THEN <<>>
    ELSE TileRows(height, width, tiles_per_side, rows_done - 1)
            \o RowOfTiles(height, width, tiles_per_side, rows_done - 1)

\* The slices of crop_into_tiles in list order.
CropSlices(height, width, tiles_per_side) ==
    TileRows(height, width, tiles_per_side, tiles_per_side)

\* ImageProcessor.crop_into_tiles(img, tiles_per_side): the list of views;
\* tiles_per_side = 0 raises ZeroDivisionError at the first division.
CropIntoTiles(image, tiles_per_side) ==
    IF tiles_per_side = 0
    THEN Raised("ZeroDivisionError", "tile_height")
    ELSE LET slices == CropSlices(image.h, image.w, tiles_per_side)
         IN  [kind |-> "tiles",
              tiles |-> [k \in DOMAIN slices |->
                  [h |-> slices[k].h, w |-> slices[k].w,
                   px |-> [p \in (0..slices[k].h-1) \X (0..slices[k].w-1) |->
                             image.px[<<slices[k].y0 + p[1], slices[k].x0 + p[2]>>]]]]]

\* Scale factors are held in hundredths (199 is 1.99).
\* Mutant: the product truncated, int(dim * scale_factor).
ScaledDim_Truncated(dim, scale) == (dim * scale) \div 100
\* int(round(dim * scale_factor))
ScaledDim(dim, scale) == PyRound(dim * scale, 100)

\* ImageProcessor.scale_image, the shape of its result; PIL's resize raises
\* ValueError for a width or height below 1.
ScaleImageShape(h, w, scale) ==
    IF ScaledDim(w, scale) < 1 \/ ScaledDim(h, scale) < 1
    THEN Raised("ValueError", "resize")
    ELSE [kind |-> "array", h |-> ScaledDim(h, scale), w |-> ScaledDim(w, scale)]

\* The scale factors tried, in hundredths, and the interpolation names.
ScaleFactors == {10, 50, 199, 200, 250}
Interpolations == {"nearest", "bilinear", "bicubic", "lanczos", "LANCZOS", "area"}

\* interpolation.lower()
Lower(name) == IF name = "LANCZOS" THEN "lanczos" ELSE name

\* The PIL filter scale_image picks for an interpolation name.
Interp(interpolation) ==
    IF Lower(interpolation) = "lanczos" THEN "LANCZOS"
    ELSE IF Lower(interpolation) = "bicubic" THEN "BICUBIC"
    ELSE IF Lower(interpolation) = "nearest" THEN "NEAREST"
    ELSE "BILINEAR"

\* ImageProcessor.scale_image: the shape of the resized image and the filter
\* it was resized with (the resampled pixel values are not modelled).
ScaleImage(img, scale_factor, interpolation) ==
    LET shape == ScaleImageShape(img.h, img.w, scale_factor)
    IN  IF shape.kind = "raised" THEN shape
        ELSE [kind |-> "array", h |-> shape.h, w |-> shape.w,
              interp |-> Interp(interpolation)]

\* The legacy tool's number of save attempts: while attemptcount < 5.
LegacySaveAttempts == 5

\* The file system refuses at most this many writes in a row.
MaxWriteFailures == 5

\* ImageProcessor.save_tiff with the next `failures` calls of tifffile.imwrite
\* raising OSError: it makes one call; writes counts the calls made.
SaveTiff(img, compress, failures) ==
    IF failures >= 1
    THEN [kind |-> "raised", error |-> "OSError", at |-> "imwrite", writes |-> 1]
    ELSE [kind |-> "saved", h |-> img.h, w |-> img.w, px |-> img.px,
          compression |-> IF compress THEN "lzw" ELSE "none", writes |-> 1]

\* An h x w array whose entries all differ and are non-zero.
TestArray(h, w) ==
    [h |-> h, w |-> w, px |-> [p \in (0..h-1) \X (0..w-1) |-> 1 + p[1] * w + p[2]]]

Positions == {"top-left", "center"}

ProcInit ==
    /\ grid = [rows |-> 0, cols |-> 0, pct |-> 0]
    /\ image_paths = <<>> /\ method = "none" /\ pc = "idle"
    /\ first_img = NoImage /\ overlap_pixels = 0
    /\ canvas = Zeros(0, 0) /\ weight_map = Zeros(0, 0)
    /\ idx = 0 /\ positions = <<>> /\ refined = <<>> /\ reads = 0 /\ ret = NoRet
    /\ MainIdle
    /\ LegacyIdle
    /\ result = NoRet
    /\ \E h \in 1..MaxImage, w \in 1..MaxImage : input = TestArray(h, w)
    /\ \/ \E t \in 0..MaxTarget, pos \in Positions :
             call = [fn |-> "adjust_canvas", target_size |-> t, position |-> pos]
       \/ \E n \in 0..MaxSide :
             call = [fn |-> "crop_into_tiles", tiles_per_side |-> n]
       \/ \E f \in ScaleFactors, name \in Interpolations :
             call = [fn |-> "scale_image", scale_factor |-> f, interpolation |-> name]
       \/ \E compress \in BOOLEAN, k \in 0..MaxWriteFailures :
             call = [fn |-> "save_tiff", compress |-> compress, failures |-> k]

CallAdjustCanvas ==
    /\ call.fn = "adjust_canvas"
    /\ result = NoRet
    /\ result' = AdjustCanvas(input, call.target_size, call.position)
    /\ UNCHANGED <<call, input>>

CallCropIntoTiles ==
    /\ call.fn = "crop_into_tiles"
    /\ result = NoRet
    /\ result' = CropIntoTiles(input, call.tiles_per_side)
    /\ UNCHANGED <<call, input>>

CallScaleImage ==
    /\ call.fn = "scale_image"
    /\ result = NoRet
    /\ result' = ScaleImage(input, call.scale_factor, call.interpolation)
    /\ UNCHANGED <<call, input>>

CallSaveTiff ==
    /\ call.fn = "save_tiff"
    /\ result = NoRet
    /\ result' = SaveTiff(input, call.compress, call.failures)
    /\ UNCHANGED <<call, input>>

ProcNext ==
    \/ CallAdjustCanvas /\ UNCHANGED <<stitchVars, mainVars, legacyVars>>
    \/ CallCropIntoTiles /\ UNCHANGED <<stitchVars, mainVars, legacyVars>>
    \/ CallScaleImage /\ UNCHANGED <<stitchVars, mainVars, legacyVars>>
    \/ CallSaveTiff /\ UNCHANGED <<stitchVars, mainVars, legacyVars>>

SpecProcessor == ProcInit /\ [][ProcNext]_vars

\* ----------------------------------------------------------------- main()
\* upscaled_size = min(upscaled_size, 46340)  # ImageJ limit
ImageJLimit == 46340

\* At most this many (well, channel) pairs of a run have a wrong number of
\* site files or an unreadable tile.
MaxFaults == 2

\* input_size by crop percentage.
InputSize(crop_percent) ==
    IF crop_percent = 25 THEN 400 ELSE IF crop_percent = 50 THEN 800 ELSE 1480

\* upscaled_size: stitched_size * int(round(scale_factor)), capped.
\* Mutant: the unrounded scale factor, int(stitched_size * scale_factor).
UpscaledSize_Unrounded(grid_rows, input_size, scale) ==
    Min((grid_rows * input_size * scale) \div 100, ImageJLimit)
UpscaledSize(grid_rows, input_size, scale) ==
    Min(grid_rows * input_size * PyRound(scale, 100), ImageJLimit)

\* stitch_images on count tiles of H x W, as a whole: what it raises, or the
\* shape of the mosaic it returns.
StitchImagesShape(rows, cols, count, readable, H, W, pct) ==
    LET n == OverlapPixels(W, pct)
    IN  IF count # rows * cols THEN Raised("ValueError", "count")
        ELSE IF ~readable THEN Raised("OSError", "imread")
        ELSE IF StitchedHeight(rows, H, n) < 0 \/ StitchedWidth(cols, W, n) < 0
        THEN Raised("ValueError", "zeros")
        ELSE IF \E row \in 0..rows-1, col \in 0..cols-1 :
                    MaskRaises(rows, cols, H, W, n, row, col)
        THEN Raised("ValueError", "blend_mask")
        ELSE [kind |-> "mosaic", h |-> StitchedHeight(rows, H, n),
              w |-> StitchedWidth(cols, W, n)]

\* channel_suffix.split(".")[0].lstrip("_"): a suffix is held as its stem
\* (what precedes the first ".") and its extension.
ChannelName(suffix) == suffix.stem

\* Output paths: the output root, the channel name and, for a tile, its
\* 1-based number (0 otherwise): Stitched_{name}.tiff under the stitched and
\* the downsampled root, {name}/{name}_Site_{k}.tiff under the cropped root.
Path(root, channel_name, site) == [root |-> root, channel_name |-> channel_name, site |-> site]

\* save_tiff(img, path): the file written (or overwritten), and the line logged.
Put(f, path, content) ==
    [q \in DOMAIN f \cup {path} |-> IF q = path THEN content ELSE f[q]]
SavedLine(path) == [level |-> "info", msg |-> "Saved", path |-> path]

\* for idx, tile in enumerate(tiles, start=1): save_tiff(tile, .../{name}_Site_{idx}.tiff)
RECURSIVE SaveTiles(_, _, _, _, _)
SaveTiles(f, unit, name, tiles, done) ==
    IF done = 0 THEN f
    ELSE Put(SaveTiles(f, unit, name, tiles, done - 1),
             Path("cropped", name, done),
             [unit |-> unit, kind |-> "tile", h |-> tiles[done].h, w |-> tiles[done].w,
              y0 |-> tiles[done].y0, x0 |-> tiles[done].x0])

RECURSIVE TileLines(_, _)
TileLines(name, done) ==
    IF done = 0 THEN <<>>
    ELSE Append(TileLines(name, done - 1), SavedLine(Path("cropped", name, done)))

\* The body of the channel loop for one (well, channel) pair: the files and
\* the log it leaves, and whether an exception left it.
ProcessPair(f, l, well, key, site) ==
    LET unit == [well |-> well, key |-> key]
        expected_sites == config.grid_rows * config.grid_cols
        stitched == StitchImagesShape(config.grid_rows, config.grid_cols, site.count,
                                      site.readable, site.h, site.w, config.overlap)
        scaled == ScaleImageShape(stitched.h, stitched.w, config.scale)
        upscaled_size == UpscaledSize(config.grid_rows, InputSize(config.crop_percent),
                                      config.scale)
        name == ChannelName(key.suffix)
        f1 == Put(f, Path("stitched", name, 0),
                  [unit |-> unit, kind |-> "stitched", h |-> upscaled_size,
                   w |-> upscaled_size, y0 |-> 0, x0 |-> 0])
        tiles == CropSlices(upscaled_size, upscaled_size, config.tiles_per_side)
        f2 == SaveTiles(f1, unit, name, tiles, Len(tiles))
        l0 == Append(l, [level |-> "info", msg |-> "Stitching", well |-> well, key |-> key])
        l2 == (l0 \o <<SavedLine(Path("stitched", name, 0))>>) \o TileLines(name, Len(tiles))
        downsampled == ScaleImageShape(upscaled_size, upscaled_size, 10)
    IN  IF site.count # expected_sites
        THEN [files |-> f, crashed |-> FALSE,
              log |-> Append(l, [level |-> "warning", msg |-> "Expected", well |-> well,
                                 key |-> key])]
        ELSE IF stitched.kind = "raised"
        THEN [files |-> f, crashed |-> TRUE, log |-> l0]
        ELSE IF scaled.kind = "raised"
        THEN [files |-> f, crashed |-> TRUE, log |-> l0]
        ELSE IF ~(AssignFits(scaled.h, upscaled_size, "top-left")
                  /\ AssignFits(scaled.w, upscaled_size, "top-left"))
        THEN [files |-> f, crashed |-> TRUE, log |-> l0]
        ELSE IF downsampled.kind = "raised"
        THEN [files |-> f2, crashed |-> TRUE, log |-> l2]
        ELSE [files |-> Put(f2, Path("downsampled", name, 0),
                            [unit |-> unit, kind |-> "downsampled", h |-> downsampled.h,
                             w |-> downsampled.w, y0 |-> 0, x0 |-> 0]),
              crashed |-> FALSE,
              log |-> (l2 \o <<SavedLine(Path("downsampled", name, 0))>>)
                        \o <<[level |-> "info", msg |-> "Completed", well |-> well,
                              key |-> key]>>]

\* One pass of "for (prefix, channel_suffix) in sorted(channels.items())"
\* inside "for well in sorted(wells.items())": a wrong number of site files
\* logs a warning and continues; an exception raised in the body leaves
\* main(), which catches none.
MainPair ==
    /\ run = "loop"
    /\ well_i <= Len(wells)
    /\ LET out == ProcessPair(files, log, wells[well_i], channels[chan_i],
                              sites[<<well_i, chan_i>>])
       IN  /\ files' = out.files
           /\ log' = out.log
           /\ IF out.crashed
              THEN /\ run' = "crashed"
                   /\ UNCHANGED <<well_i, chan_i>>
              ELSE /\ run' = run
                   /\ IF chan_i < Len(channels)
                      THEN /\ chan_i' = chan_i + 1
                           /\ well_i' = well_i
                      ELSE /\ chan_i' = 1
                           /\ well_i' = well_i + 1
    /\ UNCHANGED <<config, wells, channels, sites>>

\* After the loops: TileConfiguration.txt and the closing log lines.
MainFinish ==
    /\ run = "loop"
    /\ well_i > Len(wells)
    /\ log' = Append(log, [level |-> "info", msg |-> "Processing complete",
                           wells |-> Len(wells), channels |-> Len(channels)])
    /\ files' = Put(files, Path("stitched", "TileConfiguration.txt", 0),
                    [unit |-> [well |-> "none"], kind |-> "text", h |-> 0, w |-> 0,
                     y0 |-> 0, x0 |-> 0])
    /\ run' = "done"
    /\ UNCHANGED <<config, wells, channels, sites, well_i, chan_i>>

\* The wells and channels a run can find, in sorted order.
WellPool == <<"A1", "B2">>
ChannelPool ==
    << [prefix |-> "Plate1", suffix |-> [stem |-> "DAPI", ext |-> "tif"]],
       [prefix |-> "Plate1", suffix |-> [stem |-> "GFP", ext |-> "tif"]],
       [prefix |-> "Plate2", suffix |-> [stem |-> "DAPI", ext |-> "tiff"]] >>

\* The members of pool at the positions in keep, in pool order.
RECURSIVE Pick(_, _, _)
Pick(pool, keep, upto) ==
    IF upto = 0 THEN <<>>
    ELSE IF upto \in keep THEN Append(Pick(pool, keep, upto - 1), pool[upto])
    ELSE Pick(pool, keep, upto - 1)

\* Command lines tried: the defaults, and departures from them.
DefaultConfig ==
    [grid_rows |-> 2, grid_cols |-> 2, overlap |-> 10, scale |-> 199,
     tiles_per_side |-> 2, crop_percent |-> 25, tile_h |-> 400, tile_w |-> 400]
Configs ==
    { DefaultConfig,
      [DefaultConfig EXCEPT !.scale = 250],
      [DefaultConfig EXCEPT !.scale = 150],
      [DefaultConfig EXCEPT !.scale = 100],
      [DefaultConfig EXCEPT !.grid_rows = 3, !.scale = 350],
      [DefaultConfig EXCEPT !.grid_rows = 30, !.grid_cols = 1, !.crop_percent = 50,
                            !.tile_h = 800, !.tile_w = 800],
      [DefaultConfig EXCEPT !.grid_rows = 1, !.grid_cols = 3],
      [DefaultConfig EXCEPT !.overlap = 0],
      [DefaultConfig EXCEPT !.overlap = 0, !.grid_rows = 1, !.grid_cols = 1],
      [DefaultConfig EXCEPT !.tiles_per_side = 3],
      [DefaultConfig EXCEPT !.tile_h = 1480, !.tile_w = 1480],
      [DefaultConfig EXCEPT !.tile_h = 300, !.tile_w = 500] }

\* What the input directory holds for one (well, channel) pair.
SiteKinds == {"ok", "short", "long", "unreadable"}
SiteFiles(kind, cfg) ==
    [count |-> cfg.grid_rows * cfg.grid_cols
                 + (IF kind = "short" THEN -1 ELSE IF kind = "long" THEN 1 ELSE 0),
     readable |-> kind # "unreadable",
     h |-> cfg.tile_h, w |-> cfg.tile_w]

MainInit ==
    /\ grid = [rows |-> 0, cols |-> 0, pct |-> 0]
    /\ image_paths = <<>> /\ method = "none" /\ pc = "idle"
    /\ first_img = NoImage /\ overlap_pixels = 0
    /\ canvas = Zeros(0, 0) /\ weight_map = Zeros(0, 0)
    /\ idx = 0 /\ positions = <<>> /\ refined = <<>> /\ reads = 0 /\ ret = NoRet
    /\ call = NoCall /\ input = NoArray /\ result = NoRet
    /\ LegacyIdle
    /\ config \in Configs
    /\ \E keep \in (SUBSET (1..Len(WellPool))) \ {{}} :
          wells = Pick(WellPool, keep, Len(WellPool))
    /\ \E keep \in (SUBSET (1..Len(ChannelPool))) \ {{}} :
          channels = Pick(ChannelPool, keep, Len(ChannelPool))
    /\ \E kinds \in [(1..Len(wells)) \X (1..Len(channels)) -> SiteKinds] :
          /\ Cardinality({u \in DOMAIN kinds : kinds[u] # "ok"}) <= MaxFaults
          /\ sites = [u \in DOMAIN kinds |-> SiteFiles(kinds[u], config)]
    /\ well_i = 1 /\ chan_i = 1
    /\ files = <<>>
    /\ log = <<>>
    /\ run = "loop"

MainNext ==
    \/ MainPair /\ UNCHANGED <<stitchVars, procVars, legacyVars>>
    \/ MainFinish /\ UNCHANGED <<stitchVars, procVars, legacyVars>>

SpecMain == MainInit /\ [][MainNext]_vars

\* ------------------------------------------- legacy macro: savefile
\* One call of savefile(im, imname, plugin, compress) of the Jython macro.
\* The file system decides, write by write, whether IJ.saveAs or
\* Exporter.run succeeds (TRUE) or throws (FALSE).
MaxExports == 6
CompressArgs == {"true", "True", "TRUE", "false", "no"}

\* compress.lower()
CompressLower(arg) == IF arg \in {"True", "TRUE"} THEN "true" ELSE arg

\* while attemptcount <= 5, one attempt too many.
MoreAttempts_Inclusive(count) == count <= LegacySaveAttempts

\* while attemptcount < 5
MoreAttempts(count) == count < LegacySaveAttempts

StitchIdle ==
    /\ grid = [rows |-> 0, cols |-> 0, pct |-> 0]
    /\ image_paths = <<>> /\ method = "none" /\ pc = "idle"
    /\ first_img = NoImage /\ overlap_pixels = 0
    /\ canvas = Zeros(0, 0) /\ weight_map = Zeros(0, 0)
    /\ idx = 0 /\ positions = <<>> /\ refined = <<>> /\ reads = 0 /\ ret = NoRet

SavefileInit ==
    /\ StitchIdle
    /\ call = NoCall /\ input = NoArray /\ result = NoRet
    /\ MainIdle
    /\ presuflist = <<>> /\ presuf_i = 0
    /\ legacy_pc = "savefile"
    /\ legacy_compress \in CompressArgs
    /\ attemptcount = 0
    /\ io \in [1..MaxExports -> BOOLEAN]
    /\ writes = 0
    /\ legacy_log = <<>>

\* attemptcount = 0; logger.info("Saving ..."); the branch on compress,
\* and on the uncompressed branch the single IJ.saveAs, outside any try.
SavefileEnter ==
    /\ legacy_pc = "savefile"
    /\ IF CompressLower(legacy_compress) # "true"
       THEN /\ writes' = writes + 1
            /\ legacy_pc' = IF io[writes + 1] THEN "returned" ELSE "raised"
            /\ legacy_log' = Append(legacy_log, "Saving")
       ELSE /\ writes' = writes
            /\ legacy_pc' = "while"
            /\ legacy_log' = Append(legacy_log, "Saving")
    /\ UNCHANGED <<legacy_compress, attemptcount, io, presuflist, presuf_i>>

\* One pass of the while loop: Exporter(plugin, im).run() inside try,
\* return on success, attemptcount += 1 on any exception.
SavefileAttempt ==
    /\ legacy_pc = "while"
    /\ MoreAttempts(attemptcount)
    /\ writes < MaxExports
    /\ writes' = writes + 1
    /\ IF io[writes + 1]
       THEN /\ legacy_log' = Append(legacy_log, "Succeeded")
            /\ legacy_pc' = "returned"
            /\ UNCHANGED attemptcount
       ELSE /\ attemptcount' = attemptcount + 1
            /\ UNCHANGED <<legacy_log, legacy_pc>>
    /\ UNCHANGED <<legacy_compress, io, presuflist, presuf_i>>

\* The loop condition fails: logger.error("Failed 5 times ...") and the
\* function ends.
SavefileGiveUp ==
    /\ legacy_pc = "while"
    /\ ~MoreAttempts(attemptcount)
    /\ legacy_log' = Append(legacy_log, "Failed 5 times")
    /\ legacy_pc' = "returned"
    /\ UNCHANGED <<legacy_compress, attemptcount, io, writes, presuflist, presuf_i>>

SavefileNext ==
    \/ SavefileEnter /\ UNCHANGED <<stitchVars, procVars, mainVars>>
    \/ SavefileAttempt /\ UNCHANGED <<stitchVars, procVars, mainVars>>
    \/ SavefileGiveUp /\ UNCHANGED <<stitchVars, procVars, mainVars>>

SpecSavefile == SavefileInit /\ [][SavefileNext]_vars

\* --------------------------------- legacy macro: filtering presuflist
\* presuflist as STEP 3 of the macro leaves it: distinct (prefix, channel
\* suffix) pairs in directory order. Strings are sequences of characters.
MaxPresuf == 4
Prefixes == {<<"P">>, <<"Q">>}
Suffixes == {<<"A", ".", "t", "i", "f">>,
             <<"B", ".", "t", "i", "f", "f">>,
             <<"A", ".", "t", "i", "f", "x">>,
             <<"B", ".", "t", "i", "f", "x">>}

\* ord(c) of the characters in use.
Ord(c) ==
    CASE c = "." -> 46 [] c = "A" -> 65 [] c = "B" -> 66 [] c = "P" -> 80
      [] c = "Q" -> 81 [] c = "f" -> 102 [] c = "i" -> 105 [] c = "t" -> 116
      [] c = "x" -> 120

\* s[-k:]
LastChars(s, k) == SubSeq(s, Max(1, Len(s) - k + 1), Len(s))

\* The test of the filter loop: the suffix is dropped when neither its last
\* four characters are ".tif" nor its last five ".tiff".
Dropped(eachpresuf) ==
    /\ LastChars(eachpresuf[2], 4) # <<".", "t", "i", "f">>
    /\ LastChars(eachpresuf[2], 5) # <<".", "t", "i", "f", "f">>

\* list.remove(x): the first item equal to x is taken out.
ListRemove(list, x) ==
    LET n == CHOOSE k \in DOMAIN list : list[k] = x /\ \A j \in 1..(k - 1) : list[j] # x
    IN  [k \in 1..(Len(list) - 1) |-> IF k < n THEN list[k] ELSE list[k + 1]]

\* a < b for Python 2 byte strings.
StrLess(a, b) ==
    \E k \in 1..(Min(Len(a), Len(b)) + 1) :
        /\ \A j \in 1..(k - 1) : a[j] = b[j]
        /\ \/ k > Len(a) /\ k <= Len(b)
           \/ k <= Len(a) /\ k <= Len(b) /\ Ord(a[k]) < Ord(b[k])

\* a < b for tuples (prefix, suffix).
PresufLess(a, b) ==
    \/ StrLess(a[1], b[1])
    \/ a[1] = b[1] /\ StrLess(a[2], b[2])

\* list.sort() of a list of distinct pairs.
ListSort(list) ==
    LET items == {list[k] : k \in DOMAIN list}
    IN  [k \in 1..Len(list) |->
            CHOOSE e \in items : Cardinality({x \in items : PresufLess(x, e)}) = k - 1]

PresufInit ==
    /\ StitchIdle
    /\ call = NoCall /\ input = NoArray /\ result = NoRet
    /\ MainIdle
    /\ legacy_compress = "" /\ attemptcount = 0 /\ io = <<>> /\ writes = 0
    /\ legacy_pc = "presuflist"
    /\ \E n \in 1..MaxPresuf :
          /\ presuflist \in [1..n -> Prefixes \X Suffixes]
          /\ \A j, k \in 1..n : presuflist[j] = presuflist[k] => j = k
    /\ presuf_i = 0
    /\ legacy_log = <<>>

\* logger.info("Before filtering presuflist: ..."); the for statement takes
\* an iterator over the list.
PresufStart ==
    /\ legacy_pc = "presuflist"
    /\ legacy_log' = Append(legacy_log, <<"Before filtering presuflist", presuflist>>)
    /\ presuf_i' = 0
    /\ legacy_pc' = "for"
    /\ UNCHANGED <<legacy_compress, attemptcount, io, writes, presuflist>>

\* One pass of the loop: the iterator yields the item at its index and
\* moves on by one; the body removes the item from the list being iterated.
PresufStep ==
    /\ legacy_pc = "for"
    /\ presuf_i < Len(presuflist)
    /\ LET eachpresuf == presuflist[presuf_i + 1]
       IN  IF Dropped(eachpresuf)
           THEN /\ presuflist' = ListRemove(presuflist, eachpresuf)
                /\ legacy_log' = Append(legacy_log, <<"Removed from presuflist", eachpresuf>>)
           ELSE UNCHANGED <<presuflist, legacy_log>>
    /\ presuf_i' = presuf_i + 1
    /\ UNCHANGED <<legacy_pc, legacy_compress, attemptcount, io, writes>>

\* The iterator is exhausted: presuflist.sort().
PresufSort ==
    /\ legacy_pc = "for"
    /\ presuf_i >= Len(presuflist)
    /\ presuflist' = ListSort(presuflist)
    /\ legacy_pc' = "sorted"
    /\ UNCHANGED <<legacy_compress, attemptcount, io, writes, presuf_i, legacy_log>>

PresufNext ==
    \/ PresufStart /\ UNCHANGED <<stitchVars, procVars, mainVars>>
    \/ PresufStep /\ UNCHANGED <<stitchVars, procVars, mainVars>>
    \/ PresufSort /\ UNCHANGED <<stitchVars, procVars, mainVars>>

SpecPresuf == PresufInit /\ [][PresufNext]_vars

\* ------------------------------------------------- properties: naive stitch
TileCount == grid.rows * grid.cols

\* Tile k (0-based, row-major) covers mosaic pixel p at its geometric placement.
Covers(k, p) ==
    LET y0 == (k \div grid.cols) * (first_img.h - overlap_pixels)
        x0 == (k % grid.cols) * (first_img.w - overlap_pixels)
    IN  /\ y0 <= p[1] /\ p[1] < y0 + first_img.h
        /\ x0 <= p[2] /\ p[2] < x0 + first_img.w

CoverSet(p) == {k \in 0..TileCount-1 : Covers(k, p)}

\* Pixel of tile k that lands on mosaic pixel p.
TilePixelAt(k, p) ==
    image_paths[k + 1].px[<<p[1] - (k \div grid.cols) * (first_img.h - overlap_pixels),
                            p[2] - (k % grid.cols) * (first_img.w - overlap_pixels)>>]

\* Some tile differs from the first in shape or dtype.
Inconsistent ==
    \E k \in 1..Len(image_paths) :
        \/ image_paths[k].dtype # image_paths[1].dtype
        \/ image_paths[k].h # image_paths[1].h
        \/ image_paths[k].w # image_paths[1].w

\* C1: a mosaic returned by stitch_images has height H + (rows-1)*(H-n) and
\* width W + (cols-1)*(W-n) with n = floor(W * overlap_percent / 100), its
\* entries fill exactly that shape, and with the right number of tiles and
\* 1 <= n <= min(H, W) the call does return a mosaic; 2x2 tiles of 100x100
\* at 10% give 190.
C1_NaiveShape ==
    /\ StitchedHeight(2, 100, OverlapPixels(100, 10)) = 190
    /\ StitchedWidth(2, 100, OverlapPixels(100, 10)) = 190
    /\ (method = "naive" /\ pc = "returned") =>
          LET H == image_paths[1].h
              W == image_paths[1].w
              n == (W * grid.pct) \div 100
          IN  /\ ret.kind = "mosaic"
              /\ ret.h = H + (grid.rows - 1) * (H - n)
              /\ ret.w = W + (grid.cols - 1) * (W - n)
              /\ DOMAIN ret.px = (0..ret.h-1) \X (0..ret.w-1)
    /\ (method = "naive" /\ pc = "raised" /\ ~CountMismatch /\ ~Inconsistent) =>
          LET n == (image_paths[1].w * grid.pct) \div 100
          IN  ~(1 <= n /\ n <= Min(image_paths[1].h, image_paths[1].w))

C1_Witness ==
    /\ method = "naive" /\ pc = "returned"
    /\ grid.rows = 2 /\ grid.cols = 2
    /\ first_img.h # first_img.w
    /\ overlap_pixels >= 1
    /\ ret.h = 2 * first_img.h - overlap_pixels

\* C3: where exactly one tile covers a mosaic pixel, the mosaic returned by
\* stitch_images holds that tile's pixel value (the source image's pixel).
C3_RoundTrip ==
    (method = "naive" /\ pc = "returned" /\ ~Inconsistent) =>
        \A p \in DOMAIN ret.px : \A k \in 0..TileCount-1 :
            CoverSet(p) = {k} => ret.px[p] = <<TilePixelAt(k, p), 1>>

\* The same for tiles of the unsigned 16-bit dtype only.
C3_RoundTripUint16 ==
    (method = "naive" /\ pc = "returned" /\ ~Inconsistent /\ first_img.dtype = "uint16") =>
        \A p \in DOMAIN ret.px : \A k \in 0..TileCount-1 :
            CoverSet(p) = {k} => ret.px[p] = <<TilePixelAt(k, p), 1>>

\* C4: once every tile is placed, the accumulated weight of a mosaic pixel
\* covered by exactly two tiles is 1 (MaskDen over MaskDen).
C4_WeightSum ==
    (method = "naive" /\ pc \in {"place", "returned"} /\ idx = TileCount) =>
        \A p \in DOMAIN weight_map.px :
            Cardinality(CoverSet(p)) = 2 => weight_map.px[p] = MaskDen(overlap_pixels)

\* A band of three or more samples, where both ramps take values strictly
\* between 0 and 1, blended between two tiles.
C4_Witness ==
    /\ method = "naive" /\ pc = "returned"
    /\ overlap_pixels >= 3
    /\ overlap_pixels < first_img.w
    /\ \E p \in DOMAIN weight_map.px :
          /\ Cardinality(CoverSet(p)) = 2
          /\ \E k \in CoverSet(p) :
                LET m == BlendMask(grid.rows, grid.cols, first_img.h, first_img.w,
                                   overlap_pixels, k \div grid.cols, k % grid.cols,
                                   p[1] - (k \div grid.cols) * (first_img.h - overlap_pixels),
                                   p[2] - (k % grid.cols) * (first_img.w - overlap_pixels))
                IN  0 < m /\ m < MaskDen(overlap_pixels)

\* C2: stitch_images and stitch_images_with_registration both raise the
\* count error whenever the number of tiles differs from grid_rows *
\* grid_cols, before any tile is read and without returning a mosaic; with
\* exactly grid_rows * grid_cols tiles that error is never raised.
C2_CountPrecondition ==
    /\ method \in {"naive", "registration"}
    /\ (pc # "call" /\ Len(image_paths) # grid.rows * grid.cols) =>
          /\ pc = "raised"
          /\ ret = Raised("ValueError", "count")
          /\ reads = 0
    /\ (Len(image_paths) = grid.rows * grid.cols /\ ret.kind = "raised") =>
          ret.at # "count"

\* The registration stitcher refusing one tile too many, none read.
C2_Witness ==
    /\ method = "registration" /\ pc = "raised"
    /\ Len(image_paths) = grid.rows * grid.cols + 1
    /\ ret = Raised("ValueError", "count")
    /\ reads = 0

\* The valid range of a dtype holds the fraction v (float32 holds every
\* value the model meets).
InDTypeRange(dtype, v) ==
    IsInteger(dtype) => IInfoMin(dtype) * v[2] <= v[1] /\ v[1] <= IInfoMax(dtype) * v[2]

\* C15: the mosaic either stitcher returns has the first tile's dtype, and
\* every normalised value that the dtype can hold (inside its valid range,
\* and whole for an integer dtype) is returned unchanged: the clip changes
\* out-of-range values only.
C15_ClipToDTypeRange ==
    pc = "returned" =>
        /\ ret.dtype = image_paths[1].dtype
        /\ \A p \in DOMAIN ret.px :
              LET v == Normalized(canvas.px[p], weight_map.px[p])
              IN  (InDTypeRange(ret.dtype, v) /\ (IsInteger(ret.dtype) => v[2] = 1)) =>
                     ret.px[p] = v

\* The same for unsigned integer tiles, whose valid range starts at 0.
C15_UnsignedKept ==
    (pc = "returned" /\ image_paths[1].dtype = "uint16") =>
        /\ ret.dtype = image_paths[1].dtype
        /\ \A p \in DOMAIN ret.px :
              LET v == Normalized(canvas.px[p], weight_map.px[p])
              IN  (InDTypeRange(ret.dtype, v) /\ v[2] = 1) => ret.px[p] = v

\* C16: stitch_images never returns a mosaic when some tile differs from the
\* first in shape or dtype.
C16_InconsistentRejected ==
    (method = "naive" /\ Inconsistent) => pc # "returned"

\* The same for a tile of a shape numpy cannot broadcast to the first's.
C16_UnbroadcastableRejected ==
    (method = "naive" /\ \E k \in 1..Len(image_paths) :
        ~ProductFits(image_paths[1].h, image_paths[1].w,
                     image_paths[k].h, image_paths[k].w)) => pc # "returned"

\* ---------------------------------------------- properties: registration
\* The positions compute_tile_positions returned are in hand.
PositionsKnown == method = "registration" /\ pc \in {"reg_first", "reg_place", "returned"}

\* x = col * (W - n), y = row * (H - n), over PosDen.
GeometricPosition(i) ==
    LET W == image_paths[1].w
        H == image_paths[1].h
        n == OverlapPixels(W, grid.pct)
    IN  <<PosDen * (((i - 1) % grid.cols) * (W - n)),
          PosDen * (((i - 1) \div grid.cols) * (H - n))>>

\* C13: on flat tiles (zero variance) compute_tile_positions does not crash
\* when the overlap is at least one pixel, and the positions it returns are
\* the geometric ones, x = col * (W - n), y = row * (H - n).
C13_FlatFallsBack ==
    (/\ method = "registration"
     /\ Len(image_paths) = TileCount
     /\ \A k \in 1..Len(image_paths) : IsFlat(image_paths[k])
     /\ OverlapPixels(image_paths[1].w, grid.pct) >= 1) =>
        /\ pc = "raised" => ret.at # "phase_correlation"
        /\ PositionsKnown => \A i \in 1..Len(positions) : positions[i] = GeometricPosition(i)

\* The same for flat tiles placed too close for the outlier filter to move
\* any: what differs from the geometric estimate is the measured shift.
C13_FlatFallsBackUnfiltered ==
    (/\ method = "registration"
     /\ Len(image_paths) = TileCount
     /\ \A k \in 1..Len(image_paths) : IsFlat(image_paths[k])
     /\ OverlapPixels(image_paths[1].w, grid.pct) >= 1
     /\ OverlapPixels(image_paths[1].w, grid.pct) <= Min(image_paths[1].h, image_paths[1].w)
     /\ image_paths[1].w - OverlapPixels(image_paths[1].w, grid.pct) < 2
     /\ image_paths[1].h - OverlapPixels(image_paths[1].w, grid.pct) < 2
     /\ PositionsKnown) =>
        \A i \in 1..Len(positions) : positions[i] = GeometricPosition(i)

\* C14: the positions compute_tile_positions returns never decrease along a
\* row or down a column, whatever the measured shifts; checked here for
\* overlaps n >= 1 with n + n // 2 <= min(H, W), where no measured shift can
\* reorder two neighbours by itself.
C14_OrderPreserved ==
    (/\ PositionsKnown
     /\ LET n == OverlapPixels(image_paths[1].w, grid.pct)
        IN  n >= 1 /\ n + n \div 2 <= Min(image_paths[1].h, image_paths[1].w)) =>
        \A i \in 1..Len(positions) :
            /\ (i - 1) % grid.cols < grid.cols - 1 => positions[i][1] <= positions[i + 1][1]
            /\ i + grid.cols <= Len(positions) => positions[i][2] <= positions[i + grid.cols][2]

\* The same for tiles placed too close for the outlier filter to move any
\* (every tile within the threshold of the mean of its neighbours).
C14_OrderPreservedUnfiltered ==
    (/\ PositionsKnown
     /\ LET n == OverlapPixels(image_paths[1].w, grid.pct)
        IN  /\ n >= 1 /\ n + n \div 2 <= Min(image_paths[1].h, image_paths[1].w)
            /\ image_paths[1].w - n < 2 /\ image_paths[1].h - n < 2) =>
        \A i \in 1..Len(positions) :
            /\ (i - 1) % grid.cols < grid.cols - 1 => positions[i][1] <= positions[i + 1][1]
            /\ i + grid.cols <= Len(positions) => positions[i][2] <= positions[i + grid.cols][2]

\* --------------------------------------------- properties: ImageProcessor
\* C5: adjust_canvas never raises and returns target_size x target_size
\* entries, for both anchors and every input size.
C5_CanvasNeverRaises ==
    (call.fn = "adjust_canvas" /\ result # NoRet) =>
        /\ result.kind = "array"
        /\ result.h = call.target_size /\ result.w = call.target_size
        /\ DOMAIN result.px = (0..call.target_size-1) \X (0..call.target_size-1)

\* The same for the anchor the driver uses, "top-left".
C5_TopLeftNeverRaises ==
    (call.fn = "adjust_canvas" /\ call.position = "top-left" /\ result # NoRet) =>
        /\ result.kind = "array"
        /\ result.h = call.target_size /\ result.w = call.target_size
        /\ DOMAIN result.px = (0..call.target_size-1) \X (0..call.target_size-1)

\* C6: with anchor "top-left", the call returns the input's entries at every
\* (y, x) with y < min(h, T) and x < min(w, T) and 0 everywhere else, and
\* leaves the input array as it was.
C6_TopLeftCopy ==
    [][(call.fn = "adjust_canvas" /\ call.position = "top-left" /\ result' # result) =>
         /\ input' = input
         /\ result'.kind = "array"
         /\ result'.h = call.target_size /\ result'.w = call.target_size
         /\ \A y \in 0..call.target_size-1, x \in 0..call.target_size-1 :
               result'.px[<<y, x>>] =
                  IF y < Min(input.h, call.target_size) /\ x < Min(input.w, call.target_size)
                  THEN input.px[<<y, x>>] ELSE 0]_vars

\* A padded axis and a cropped axis in one call.
C6_Witness ==
    /\ call.fn = "adjust_canvas" /\ call.position = "top-left"
    /\ result # NoRet /\ result.kind = "array"
    /\ input.h < call.target_size /\ input.w > call.target_size
    /\ result.px[<<0, 0>>] = input.px[<<0, 0>>]
    /\ result.px[<<call.target_size - 1, 0>>] = 0

\* C7: for tiles_per_side n >= 1, crop_into_tiles returns n*n tiles, each of
\* exactly (H // n) x (W // n) entries, and no entry of a remainder row or
\* column (at or past n * (H // n), n * (W // n)) is in any tile.
C7_TileCountAndSize ==
    (call.fn = "crop_into_tiles" /\ call.tiles_per_side >= 1 /\ result # NoRet) =>
        LET n == call.tiles_per_side
            th == input.h \div n
            tw == input.w \div n
        IN  /\ result.kind = "tiles"
            /\ Len(result.tiles) = n * n
            /\ \A k \in 1..Len(result.tiles) :
                  /\ result.tiles[k].h = th /\ result.tiles[k].w = tw
                  /\ DOMAIN result.tiles[k].px = (0..th-1) \X (0..tw-1)
                  /\ \A p \in DOMAIN input.px :
                        (p[1] >= n * th \/ p[2] >= n * tw) =>
                           \A q \in DOMAIN result.tiles[k].px :
                              result.tiles[k].px[q] # input.px[p]

\* tiles_per_side divides neither axis, and exceeds none.
C7_Witness ==
    /\ call.fn = "crop_into_tiles" /\ result # NoRet /\ result.kind = "tiles"
    /\ call.tiles_per_side >= 2
    /\ input.h % call.tiles_per_side # 0 /\ input.w % call.tiles_per_side # 0
    /\ input.h > call.tiles_per_side /\ input.w > call.tiles_per_side
    /\ Len(result.tiles) = call.tiles_per_side * call.tiles_per_side

\* tiles_per_side larger than the image: n*n empty tiles.
C7_WitnessEmpty ==
    /\ call.fn = "crop_into_tiles" /\ result # NoRet /\ result.kind = "tiles"
    /\ call.tiles_per_side > input.h
    /\ Len(result.tiles) = call.tiles_per_side * call.tiles_per_side

\* C17: a failed write of an output TIFF is attempted again, up to 5 attempts
\* for the file: save_tiff succeeds on the first attempt that is not refused,
\* and raises only after the 5th failed attempt.
C17_BoundedSaveRetry ==
    (call.fn = "save_tiff" /\ result # NoRet) =>
        IF call.failures < LegacySaveAttempts
        THEN result.kind = "saved" /\ result.writes = call.failures + 1
        ELSE result.kind = "raised" /\ result.writes = LegacySaveAttempts

\* What save_tiff does: one write, whose failure leaves the call at once.
C17_SingleAttempt ==
    (call.fn = "save_tiff" /\ result # NoRet) =>
        /\ result.writes = 1
        /\ result.kind = "raised" <=> call.failures >= 1

\* C18: scale_image with an interpolation name other than nearest, bilinear,
\* bicubic or lanczos (in either case) raises an error and never returns an
\* image resized with another filter.
C18_UnsupportedInterpolationFails ==
    (/\ call.fn = "scale_image" /\ result # NoRet
     /\ call.interpolation \notin {"nearest", "bilinear", "bicubic", "lanczos", "LANCZOS"}) =>
        result.kind = "raised"

\* What scale_image does with any other name: it resizes with BILINEAR.
C18_UnknownNameIsBilinear ==
    (/\ call.fn = "scale_image" /\ result # NoRet /\ result.kind = "array"
     /\ call.interpolation \notin {"nearest", "bilinear", "bicubic", "lanczos", "LANCZOS"}) =>
        result.interp = "BILINEAR"

\* The four named filters are the ones used when named in lower case.
C18_NamedFilterUsed ==
    (call.fn = "scale_image" /\ result # NoRet /\ result.kind = "array") =>
        /\ call.interpolation = "nearest" => result.interp = "NEAREST"
        /\ call.interpolation = "bilinear" => result.interp = "BILINEAR"
        /\ call.interpolation = "bicubic" => result.interp = "BICUBIC"
        /\ call.interpolation = "lanczos" => result.interp = "LANCZOS"

\* r is dim * scale / 100 rounded to the nearest integer, a tie to the even one.
IsRounded(r, dim, scale) ==
    /\ 2 * (100 * r - dim * scale) <= 100
    /\ 2 * (dim * scale - 100 * r) <= 100
    /\ (2 * (100 * r - dim * scale) \in {100, -100}) => r % 2 = 0

Pairs == (1..Len(wells)) \X (1..Len(channels))
ExpectedSites == config.grid_rows * config.grid_cols
Logged(msg, u) ==
    \E i \in 1..Len(log) :
        /\ log[i].msg = msg
        /\ log[i].well = wells[u[1]]
        /\ log[i].key = channels[u[2]]

\* C8: the tile saved as {channel}_Site_{k}.tiff, k = 1..n*n, is the canvas
\* region of rows [r*th, (r+1)*th) and columns [c*tw, (c+1)*tw) with
\* r = (k-1) // n, c = (k-1) mod n, th = H // n, tw = W // n; the regions of
\* one canvas are pairwise disjoint.
C8_TileOrder ==
    \A p \in DOMAIN files :
        p.root = "cropped" =>
            LET n == config.tiles_per_side
                k == p.site
                side == Min(config.grid_rows * InputSize(config.crop_percent)
                              * PyRound(config.scale, 100), ImageJLimit)
                th == side \div n
                tw == side \div n
                r == (k - 1) \div n
                c == (k - 1) % n
            IN  /\ k \in 1..n * n
                /\ p.channel_name = files[p].unit.key.suffix.stem
                /\ files[p].y0 = r * th /\ files[p].h = th
                /\ files[p].x0 = c * tw /\ files[p].w = tw
                /\ \A q \in DOMAIN files :
                      (q.root = "cropped" /\ q.channel_name = p.channel_name /\ q # p) =>
                          \/ files[q].y0 + files[q].h <= files[p].y0
                          \/ files[p].y0 + files[p].h <= files[q].y0
                          \/ files[q].x0 + files[q].w <= files[p].x0
                          \/ files[p].x0 + files[p].w <= files[q].x0

\* Nine tiles of a canvas whose side 3 does not divide, all saved.
C8_Witness ==
    /\ run = "done"
    /\ config.tiles_per_side = 3
    /\ \E p \in DOMAIN files :
          /\ p.root = "cropped" /\ p.site = 9
          /\ files[p].y0 = 2 * files[p].h /\ files[p].x0 = 2 * files[p].w
          /\ 3 * files[p].h < UpscaledSize(config.grid_rows, InputSize(config.crop_percent),
                                           config.scale)

\* C9: every saved stitched image is a square of side
\* min(grid_rows * input_tile_size * round(scale_factor), 46340), whatever
\* grid_cols, the size of the scaled mosaic and the unrounded scale factor
\* are, and never above 46340; round is the language's (a tie goes to the
\* even integer).
C9_CanvasSide ==
    \A p \in DOMAIN files :
        (p.root = "stitched" /\ files[p].kind = "stitched") =>
            LET input_tile_size == IF config.crop_percent = 25 THEN 400
                                   ELSE IF config.crop_percent = 50 THEN 800 ELSE 1480
                s == config.scale
                Near(r) == IF 100 * r >= s THEN 100 * r - s ELSE s - 100 * r
                rounded == CHOOSE r \in 0..(s \div 100) + 1 :
                              \/ Near(r) < 50
                              \/ Near(r) = 50 /\ r % 2 = 0
                side == Min(config.grid_rows * input_tile_size * rounded, 46340)
            IN  /\ files[p].h = side /\ files[p].w = side
                /\ files[p].h <= 46340

\* A run whose canvas is capped at the limit, on a grid that is not square
\* and with a scale factor that is not an integer.
C9_Witness ==
    /\ run = "done"
    /\ config.grid_rows # config.grid_cols
    /\ config.scale % 100 # 0
    /\ config.grid_rows * InputSize(config.crop_percent) * PyRound(config.scale, 100)
          > ImageJLimit
    /\ \E p \in DOMAIN files :
          p.root = "stitched" /\ files[p].kind = "stitched" /\ files[p].h = ImageJLimit

\* C10: a pair with a wrong number of site files produces a warning and no
\* output, and every other pair with exactly grid_rows * grid_cols files,
\* before or after it, is stitched and saved by the end of the run.
C10_SkipDoesNotStopRun ==
    run \in {"done", "crashed"} =>
        \A u \in Pairs :
            sites[u].count # ExpectedSites =>
                /\ Logged("Expected", u)
                /\ \A p \in DOMAIN files :
                      files[p].unit # [well |-> wells[u[1]], key |-> channels[u[2]]]
                /\ \A v \in Pairs \ {u} :
                      sites[v].count = ExpectedSites => Logged("Completed", v)

\* The same for the runs in which no pair raises: a skipped pair writes
\* nothing, and every other pair with the right count is completed.
C10_SkipAloneContinues ==
    run = "done" =>
        \A u \in Pairs :
            sites[u].count # ExpectedSites =>
                /\ Logged("Expected", u)
                /\ \A p \in DOMAIN files :
                      files[p].unit # [well |-> wells[u[1]], key |-> channels[u[2]]]
                /\ \A v \in Pairs \ {u} :
                      sites[v].count = ExpectedSites => Logged("Completed", v)

\* The pass that skips a pair leaves the output directories as they were
\* and moves on to the next pair.
C10_SkipWritesNothing ==
    [][(run = "loop" /\ well_i <= Len(wells)
        /\ sites[<<well_i, chan_i>>].count # ExpectedSites) =>
          /\ files' = files
          /\ run' = "loop"
          /\ <<well_i', chan_i'>> # <<well_i, chan_i>>]_vars

\* The units main() meets: their identity, what the input directory holds
\* for them, and what the log says of them.
UnitOf(u) == [well |-> wells[u[1]], key |-> channels[u[2]]]
RightCount(u) == sites[u].count = ExpectedSites
Unreadable(u) == RightCount(u) /\ ~sites[u].readable
ValidInput(u) == RightCount(u) /\ sites[u].readable
\* The command line is one stitch_images accepts for readable tiles.
StitchableConfig ==
    StitchImagesShape(config.grid_rows, config.grid_cols, ExpectedSites, TRUE,
                      config.tile_h, config.tile_w, config.overlap).kind = "mosaic"

\* C11: a unit whose tile file cannot be read is aborted alone: the run does
\* not end with the exception, it reaches its end, and by then every unit
\* with valid input has produced its outputs.
C11_FailureIsolation ==
    (StitchableConfig /\ \E u \in Pairs : Unreadable(u) /\ Logged("Stitching", u)) =>
        /\ run # "crashed"
        /\ run = "done" => \A v \in Pairs : ValidInput(v) => Logged("Completed", v)

\* C12: at the end of a run every processed unit has its own stitched file,
\* its own n*n tile files and its own preview file: the file at each of its
\* output paths is the one this unit wrote.
C12_OneOutputPerUnit ==
    run = "done" =>
        \A u \in Pairs :
            Logged("Completed", u) =>
                LET name == ChannelName(channels[u[2]].suffix)
                    n == config.tiles_per_side
                IN  /\ files[Path("stitched", name, 0)].unit = UnitOf(u)
                    /\ files[Path("downsampled", name, 0)].unit = UnitOf(u)
                    /\ \A k \in 1..n * n : files[Path("cropped", name, k)].unit = UnitOf(u)

\* The same for runs over one well whose channels have distinct names.
C12_DistinctNamesKeepOutputs ==
    (/\ run = "done"
     /\ Len(wells) = 1
     /\ \A a, b \in 1..Len(channels) :
           ChannelName(channels[a].suffix) = ChannelName(channels[b].suffix) => a = b) =>
        \A u \in Pairs :
            Logged("Completed", u) =>
                LET name == ChannelName(channels[u[2]].suffix)
                    n == config.tiles_per_side
                IN  /\ files[Path("stitched", name, 0)].unit = UnitOf(u)
                    /\ files[Path("downsampled", name, 0)].unit = UnitOf(u)
                    /\ \A k \in 1..n * n : files[Path("cropped", name, k)].unit = UnitOf(u)

\* C20: the closing summary reports the number of units processed and the
\* number skipped; the processed figure is the number of units that produced
\* outputs.
C20_RunSummary ==
    run = "done" =>
        \E i \in 1..Len(log) :
            /\ log[i].msg = "Processing complete"
            /\ Cardinality({u \in Pairs : Logged("Completed", u)})
                  \in {log[i].wells, log[i].channels}
            /\ Cardinality({u \in Pairs : Logged("Expected", u)})
                  \in {log[i].wells, log[i].channels}

\* C19 in the driver: the QC preview written beside a stitched canvas of side
\* S has side round(S * 0.1).
C19_PreviewSide ==
    \A p \in DOMAIN files :
        p.root = "downsampled" =>
            LET q == Path("stitched", p.channel_name, 0)
            IN  /\ q \in DOMAIN files
                /\ IsRounded(files[p].h, files[q].h, 10)
                /\ IsRounded(files[p].w, files[q].w, 10)

\* ------------------------------------------------- properties: blend mask
\* Linear ramps of n samples as numerators over n - 1 (over 1 when n = 1):
\* the fade-out runs from 1 to 0, the fade-in from 0 to 1.  A ramp of one
\* sample is its start value.
LinearFadeOut(i, n) == IF n >= 2 THEN n - 1 - i ELSE 1
LinearFadeIn(i, n) == IF n >= 2 THEN i ELSE 0

\* The same ramps with the last sample held at the end value whatever n is.
EndedFadeOut(i, n) == IF i = n - 1 THEN 0 ELSE n - 1 - i
EndedFadeIn(i, n) == IF i = n - 1 THEN (IF n >= 2 THEN n - 1 ELSE 1) ELSE i

\* The product of the four edge factors at local pixel (y, x) of the tile at
\* (row, col), each factor 1 outside its band, for ramps FadeOut and FadeIn.
EdgeProduct(FadeOut(_, _), FadeIn(_, _), rows, cols, H, W, n, row, col, y, x) ==
    LET one == IF n >= 2 THEN n - 1 ELSE 1
        right  == IF col < cols - 1 /\ W - n <= x THEN FadeOut(x - (W - n), n) ELSE one
        bottom == IF row < rows - 1 /\ H - n <= y THEN FadeOut(y - (H - n), n) ELSE one
        left   == IF col > 0 /\ x < n THEN FadeIn(x, n) ELSE one
        top    == IF row > 0 /\ y < n THEN FadeIn(y, n) ELSE one
    IN  right * bottom * left * top

\* Where the tile placed by this step was pasted: its geometric origin in
\* stitch_images, its rounded position in the registration stitcher.
PasteX == IF method = "naive"
          THEN (idx % grid.cols) * (first_img.w - OverlapPixels(first_img.w, grid.pct))
          ELSE PyRound(positions[idx + 1][1], PosDen)
PasteY == IF method = "naive"
          THEN (idx \div grid.cols) * (first_img.h - OverlapPixels(first_img.w, grid.pct))
          ELSE PyRound(positions[idx + 1][2], PosDen)

\* This step pasted tile idx, of the first tile's shape, at a paste origin
\* inside the canvas.
Pasted ==
    /\ pc \in {"place", "reg_place"} /\ idx' = idx + 1
    /\ image_paths[idx + 1].h = first_img.h /\ image_paths[idx + 1].w = first_img.w
    /\ PasteX >= 0 /\ PasteY >= 0

\* The weight this step added at every canvas pixel is the edge product of
\* the pasted tile's grid row and column inside the tile, and 0 outside it.
MaskIs(FadeOut(_, _), FadeIn(_, _)) ==
    LET H == first_img.h
        W == first_img.w
        n == OverlapPixels(W, grid.pct)
    IN  \A p \in DOMAIN weight_map.px :
            weight_map'.px[p] - weight_map.px[p] =
                IF /\ PasteY <= p[1] /\ p[1] < PasteY + H
                   /\ PasteX <= p[2] /\ p[2] < PasteX + W
                THEN EdgeProduct(FadeOut, FadeIn, grid.rows, grid.cols, H, W, n,
                                 idx \div grid.cols, idx % grid.cols,
                                 p[1] - PasteY, p[2] - PasteX)
                ELSE 0

C21_LongOverlapUnfaded ==
    [][(/\ Pasted /\ method = "registration"
        /\ OverlapPixels(first_img.w, grid.pct) > first_img.h
        /\ OverlapPixels(first_img.w, grid.pct) > first_img.w) =>
          \A p \in DOMAIN weight_map.px :
              weight_map'.px[p] - weight_map.px[p] \in {0, MaskDen(OverlapPixels(first_img.w, grid.pct))}]_vars

Adjacent(i, j) ==
    LET ri == (i - 1) \div grid.cols
        ci == (i - 1) % grid.cols
        rj == (j - 1) \div grid.cols
        cj == (j - 1) % grid.cols
    IN  \/ ri = rj /\ (ci = cj + 1 \/ cj = ci + 1)
        \/ ci = cj /\ (ri = rj + 1 \/ rj = ri + 1)

\* C22: _filter_outliers returns one placement per tile in the same order;
\* tile i gets the mean of its grid neighbours' placements before filtering
\* iff its distance to that mean is strictly greater than 3.50, and keeps
\* its placement otherwise, also when it has no neighbour.
C22_OutlierRule ==
    positions # <<>> =>
        /\ Len(positions) = Len(refined)
        /\ \A i \in 1..Len(refined) :
              LET nb == {j \in 1..Len(refined) : Adjacent(i, j)}
                  c == Cardinality(nb)
                  ex == c * refined[i][1] - SumOver(refined, 1, nb)
                  ey == c * refined[i][2] - SumOver(refined, 2, nb)
                  far == 4 * (ex * ex + ey * ey) > 49 * c * c * PosDen * PosDen
              IN  IF c > 0 /\ far
                  THEN /\ c * positions[i][1] = SumOver(refined, 1, nb)
                       /\ c * positions[i][2] = SumOver(refined, 2, nb)
                  ELSE positions[i] = refined[i]

\* A middle tile exactly 3.50 from the mean of its two neighbours is kept
\* while a neighbour of it is moved.
C22_Witness ==
    /\ method = "filter" /\ pc = "returned"
    /\ Len(refined) = 3
    /\ 2 * refined[2][1] - refined[1][1] - refined[3][1] = 7 * PosDen
    /\ refined[2][2] = refined[1][2] /\ refined[2][2] = refined[3][2]
    /\ positions[2] = refined[2]
    /\ positions[1] # refined[1]

\* ------------------------------------ properties: registration and naive
\* What stitch_images accumulates at mosaic pixel p over the tiles covering
\* it: the blend weights, or the weighted pixels.
RECURSIVE NaiveSumOver(_, _, _)
NaiveSumOver(p, tiles, weighted) ==
    IF tiles = {} THEN 0
    ELSE LET k == CHOOSE k \in tiles : TRUE
             H == image_paths[1].h
             W == image_paths[1].w
             n == OverlapPixels(W, grid.pct)
             row == k \div grid.cols
             col == k % grid.cols
             y == p[1] - row * (H - n)
             x == p[2] - col * (W - n)
             mask == BlendMask(grid.rows, grid.cols, H, W, n, row, col, y, x)
         IN  (IF weighted THEN image_paths[k + 1].px[<<y, x>>] * mask ELSE mask)
             + NaiveSumOver(p, tiles \ {k}, weighted)

\* The tiles whose geometric placement covers p.
NaiveCover(p) ==
    LET H == image_paths[1].h
        W == image_paths[1].w
        n == OverlapPixels(W, grid.pct)
    IN  {k \in 0..TileCount-1 :
            /\ (k \div grid.cols) * (H - n) <= p[1] /\ p[1] < (k \div grid.cols) * (H - n) + H
            /\ (k % grid.cols) * (W - n) <= p[2] /\ p[2] < (k % grid.cols) * (W - n) + W}

\* stitch_images on the tiles of the call, as a whole.
NaiveResult ==
    LET H == image_paths[1].h
        W == image_paths[1].w
        n == OverlapPixels(W, grid.pct)
        sh == StitchedHeight(grid.rows, H, n)
        sw == StitchedWidth(grid.cols, W, n)
    IN  IF sh < 0 \/ sw < 0 THEN Raised("ValueError", "zeros")
        ELSE IF \E k \in 0..TileCount-1 :
                    MaskRaises(grid.rows, grid.cols, H, W, n, k \div grid.cols, k % grid.cols)
        THEN Raised("ValueError", "blend_mask")
        ELSE [kind |-> "mosaic", h |-> sh, w |-> sw, dtype |-> image_paths[1].dtype,
              px |-> [p \in (0..sh-1) \X (0..sw-1) |->
                        ClipCast(image_paths[1].dtype,
                                 Normalized(NaiveSumOver(p, NaiveCover(p), TRUE),
                                            NaiveSumOver(p, NaiveCover(p), FALSE)))]]

\* NaiveResult is what the steps of stitch_images arrive at.
NaiveResultIsStitchImages ==
    (/\ method = "naive" /\ pc \in {"returned", "raised"}
     /\ ~CountMismatch /\ ~Inconsistent) => ret = NaiveResult

\* Phase correlation reported shift 0 for every neighbouring pair: the
\* positions handed to the outlier filter are the geometric ones.
ZeroShifts ==
    /\ PositionsKnown
    /\ TileCount > 1
    /\ \A i \in 1..Len(refined) : refined[i] = GeometricPosition(i)

\* C23: with shift (0, 0) measured for every pair of a grid of more than one
\* tile, compute_tile_positions returns the geometric placements and
\* stitch_images_with_registration returns the mosaic of stitch_images.
C23_ZeroShiftsEqualNaive ==
    ZeroShifts =>
        /\ \A i \in 1..Len(positions) : positions[i] = GeometricPosition(i)
        /\ pc = "returned" => ret = NaiveResult

\* The same for tiles whose strides W - n and H - n are at most 3 pixels and
\* whose overlap is no longer than the tile: the outlier filter moves none.
C23_ZeroShiftsShortStride ==
    (/\ ZeroShifts
     /\ LET n == OverlapPixels(image_paths[1].w, grid.pct)
        IN  /\ n <= image_paths[1].h /\ n <= image_paths[1].w
            /\ image_paths[1].w - n <= 3 /\ image_paths[1].h - n <= 3) =>
        /\ \A i \in 1..Len(positions) : positions[i] = GeometricPosition(i)
        /\ pc = "returned" => ret = NaiveResult

\* A registration call on more than one tile returned with zero shifts.
C23_ShortStrideReturned ==
    /\ ZeroShifts /\ pc = "returned" /\ ret.kind = "mosaic"
    /\ grid.rows = 2 /\ grid.cols = 2
    /\ image_paths[1].w - OverlapPixels(image_paths[1].w, grid.pct) = 3

\* ------------------------------------------- properties: overlap and blend
\* C24: with overlap_pixels = 0 on a grid of more than one tile,
\* stitch_images raises nothing and returns a mosaic of (rows*H) x (cols*W)
\* whose every pixel is the pixel of the one tile covering it.
C24_ZeroOverlap ==
    (/\ method = "naive" /\ ~CountMismatch /\ TileCount > 1 /\ ~Inconsistent
     /\ OverlapPixels(image_paths[1].w, grid.pct) = 0) =>
        /\ pc # "raised"
        /\ pc = "returned" =>
              /\ ret.h = grid.rows * image_paths[1].h
              /\ ret.w = grid.cols * image_paths[1].w
              /\ \A p \in DOMAIN ret.px : \A k \in 0..TileCount-1 :
                    Covers(k, p) => ret.px[p] = <<TilePixelAt(k, p), 1>>

\* What stitch_images does with a zero overlap on more than one tile: the
\* first tile's mask raises ValueError, and no tile is accumulated.
C24_ZeroOverlapRaises ==
    (/\ method = "naive" /\ ~CountMismatch /\ TileCount > 1 /\ ~Inconsistent
     /\ OverlapPixels(image_paths[1].w, grid.pct) = 0
     /\ pc \in {"place", "raised", "returned"}) =>
        /\ idx = 0
        /\ pc # "returned"
        /\ pc = "raised" => ret = Raised("ValueError", "blend_mask")

\* The pixel values of the tiles covering mosaic pixel p.
CoveringValues(p) == {TilePixelAt(k, p) : k \in CoverSet(p)}

\* C25: for unsigned-integer tiles and 1 <= n with 2n <= min(H, W), every
\* pixel of the mosaic stitch_images returns has accumulated weight above 0
\* and a value between the least and the greatest pixel value of the tiles
\* covering it; tiles all holding v give a mosaic of v.
C25_WeightedAverage ==
    (/\ method = "naive" /\ pc = "returned" /\ ~Inconsistent
     /\ first_img.dtype = "uint16"
     /\ 1 <= overlap_pixels
     /\ 2 * overlap_pixels <= Min(first_img.h, first_img.w)) =>
        \A p \in DOMAIN ret.px :
            /\ weight_map.px[p] > 0
            /\ CoverSet(p) # {}
            /\ ret.px[p][2] = 1
            /\ \E v \in CoveringValues(p) : v <= ret.px[p][1]
            /\ \E v \in CoveringValues(p) : ret.px[p][1] <= v

\* A pixel blended from two tiles of different brightness with weights
\* strictly between 0 and 1, its value strictly between theirs.
C25_Witness ==
    /\ method = "naive" /\ pc = "returned" /\ ~Inconsistent
    /\ first_img.dtype = "uint16"
    /\ overlap_pixels >= 3
    /\ 2 * overlap_pixels <= Min(first_img.h, first_img.w)
    /\ \E p \in DOMAIN ret.px :
          /\ Cardinality(CoverSet(p)) = 2
          /\ \A v \in CoveringValues(p) : v # ret.px[p][1]
          /\ \E v \in CoveringValues(p) : v < ret.px[p][1]

\* Tiles that all hold the value v are stitched to a mosaic of v.
C25_ConstantTiles ==
    (/\ method = "naive" /\ pc = "returned"
     /\ \A k \in 1..Len(image_paths) :
           IsFlat(image_paths[k]) /\ image_paths[k].px[<<0, 0>>] = image_paths[1].px[<<0, 0>>]
     /\ 1 <= overlap_pixels
     /\ 2 * overlap_pixels <= Min(first_img.h, first_img.w)) =>
        \A p \in DOMAIN ret.px : ret.px[p] = <<image_paths[1].px[<<0, 0>>], 1>>

\* ------------------------------------- properties: registration placement
\* int(round(pos_x)), int(round(pos_y)) of tile i (1-based).
PasteOrigin(i) == <<PyRound(positions[i][1], PosDen), PyRound(positions[i][2], PosDen)>>

\* C26: for every placement list compute_tile_positions returned, every
\* tile's paste origin is at or after 0 on both axes and the tile ends
\* inside the canvas of ceil(max placement + tile size), so no paste raises
\* for a tile, mask or destination of another shape.
C26_PasteInsideCanvas ==
    (method = "registration" /\ positions # <<>>) =>
        LET H == image_paths[1].h
            W == image_paths[1].w
            canvas_width == Ceil(MaxOver(positions, 1, Len(positions)) + PosDen * W, PosDen)
            canvas_height == Ceil(MaxOver(positions, 2, Len(positions)) + PosDen * H, PosDen)
        IN  /\ \A i \in 1..Len(positions) :
                  /\ 0 <= PasteOrigin(i)[1] /\ PasteOrigin(i)[1] + W <= canvas_width
                  /\ 0 <= PasteOrigin(i)[2] /\ PasteOrigin(i)[2] + H <= canvas_height
            /\ pc = "raised" => ret.at \notin {"zeros", "ones", "paste"}

\* The far side alone: no tile ends beyond the canvas, and none is cropped.
C26_EndsInsideCanvas ==
    (method = "registration" /\ positions # <<>>) =>
        LET H == image_paths[1].h
            W == image_paths[1].w
            canvas_width == Ceil(MaxOver(positions, 1, Len(positions)) + PosDen * W, PosDen)
            canvas_height == Ceil(MaxOver(positions, 2, Len(positions)) + PosDen * H, PosDen)
        IN  \A i \in 1..Len(positions) :
                /\ PasteOrigin(i)[1] + W <= canvas_width
                /\ PasteOrigin(i)[2] + H <= canvas_height

\* Both sides for overlaps n with n + n // 2 <= min(H, W), where no measured
\* shift can put a tile before its left or upper neighbour.
C26_InsideForShortOverlap ==
    (/\ method = "registration" /\ positions # <<>>
     /\ LET n == OverlapPixels(image_paths[1].w, grid.pct)
        IN  n + n \div 2 <= Min(image_paths[1].h, image_paths[1].w)) =>
        /\ \A i \in 1..Len(positions) : 0 <= PasteOrigin(i)[1] /\ 0 <= PasteOrigin(i)[2]
        /\ pc = "raised" => ret.at \notin {"zeros", "ones", "paste"}

\* ------------------------------------------------ the legacy macro (Jython)
\* round() of Python 2 on num / den >= 0: a tie goes away from zero.
Py2Round(num, den) ==
    LET q == num \div den
        r == num - q * den
    IN  IF 2 * r >= den THEN q + 1 ELSE q

\* upscaledsize of the legacy macro: int(stitchedsize * int(round(scale))),
\* capped at 46340.
LegacyUpscaledSize(rows, size, scale) ==
    LET rounded_scale_factor == Py2Round(scale, 100)
        upscaledsize == rows * size * rounded_scale_factor
    IN  IF upscaledsize > ImageJLimit THEN ImageJLimit ELSE upscaledsize

\* C27: the side of every canvas the driver saves equals the legacy macro's
\* upscaledsize for the same grid rows, input tile size and scale factor,
\* also for scale factors ending in .5.
C27_CanvasAsLegacy ==
    \A p \in DOMAIN files :
        (p.root = "stitched" /\ files[p].kind = "stitched") =>
            /\ files[p].h = LegacyUpscaledSize(config.grid_rows,
                                               InputSize(config.crop_percent), config.scale)
            /\ files[p].w = files[p].h

\* The same for scale factors that are not an even integer plus one half.
C27_CanvasAsLegacyNoEvenTie ==
    \A p \in DOMAIN files :
        (/\ p.root = "stitched" /\ files[p].kind = "stitched"
         /\ ~(config.scale % 100 = 50 /\ (config.scale \div 100) % 2 = 0)) =>
            /\ files[p].h = LegacyUpscaledSize(config.grid_rows,
                                               InputSize(config.crop_percent), config.scale)
            /\ files[p].w = files[p].h

\* STEP 11 of the legacy macro: the rectangle saved as tile each_tile_num =
\* eachxtile * tileperside + eachytile + 1, with offsets 0.
LegacyTileRect(each_tile_num, tileperside, upscaledsize) ==
    LET tilesize == upscaledsize \div tileperside
        eachxtile == (each_tile_num - 1) \div tileperside
        eachytile == (each_tile_num - 1) % tileperside
    IN  [x0 |-> eachxtile * tilesize, y0 |-> eachytile * tilesize,
         w |-> tilesize, h |-> tilesize]

\* C28: for tiles_per_side >= 2 the canvas region the driver saves as tile k
\* is the region the legacy macro saves as tile number k.
C28_TileNumbersAsLegacy ==
    config.tiles_per_side >= 2 =>
        \A p \in DOMAIN files :
            (p.root = "cropped" /\ files[p].kind = "tile") =>
                \E q \in DOMAIN files :
                    /\ q.root = "stitched" /\ q.channel_name = p.channel_name
                    /\ LET r == LegacyTileRect(p.site, config.tiles_per_side, files[q].h)
                       IN  /\ files[p].x0 = r.x0 /\ files[p].y0 = r.y0
                           /\ files[p].w = r.w /\ files[p].h = r.h

\* What holds instead: the driver's tile k is the legacy tile k mirrored in
\* the diagonal (x and y exchanged).
C28_TileNumbersTransposed ==
    config.tiles_per_side >= 2 =>
        \A p \in DOMAIN files :
            (p.root = "cropped" /\ files[p].kind = "tile") =>
                \E q \in DOMAIN files :
                    /\ q.root = "stitched" /\ q.channel_name = p.channel_name
                    /\ LET r == LegacyTileRect(p.site, config.tiles_per_side, files[q].h)
                       IN  /\ files[p].x0 = r.y0 /\ files[p].y0 = r.x0
                           /\ files[p].w = r.w /\ files[p].h = r.h

\* ------------------------------------------- properties: legacy savefile
\* The first write the file system lets succeed, 0 if none does.
FirstSuccess ==
    IF \E n \in DOMAIN io : io[n]
    THEN CHOOSE n \in DOMAIN io : io[n] /\ \A k \in 1..(n - 1) : ~io[k]
    ELSE 0

LoggedLegacy(line) == \E n \in DOMAIN legacy_log : legacy_log[n] = line

\* C29: with compression enabled savefile makes at most 5 export attempts,
\* stops at the first one that succeeds, and after 5 failures logs an error
\* and returns without raising; with compression disabled it makes exactly
\* one save and does not retry it.
C29_SavefileAttempts ==
    /\ legacy_pc # "idle" => writes <= 5
    /\ (legacy_pc \in {"returned", "raised"} /\ legacy_compress \in {"true", "True", "TRUE"}) =>
          /\ legacy_pc = "returned"
          /\ IF FirstSuccess \in 1..5
             THEN writes = FirstSuccess /\ ~LoggedLegacy("Failed 5 times")
             ELSE writes = 5 /\ LoggedLegacy("Failed 5 times")
    /\ (legacy_pc \in {"returned", "raised"} /\ legacy_compress \notin {"true", "True", "TRUE"}) =>
          /\ writes = 1
          /\ (legacy_pc = "raised") = ~io[1]

\* A compressed save that gave up after five failed exports and returned,
\* although a sixth export would have succeeded.
C29_Witness ==
    /\ legacy_pc = "returned"
    /\ legacy_compress = "True"
    /\ writes = 5
    /\ io[6]
    /\ LoggedLegacy("Failed 5 times")

\* ------------------------------------- properties: legacy presuflist
\* The list as it was logged before the filter loop.
PresufBefore == legacy_log[1][2]

EndsWith(s, t) == Len(s) >= Len(t) /\ SubSeq(s, Len(s) - Len(t) + 1, Len(s)) = t

IsTiffSuffix(s) ==
    \/ EndsWith(s, <<".", "t", "i", "f">>)
    \/ EndsWith(s, <<".", "t", "i", "f", "f">>)

\* C30: after the filter loop presuflist holds no entry whose suffix ends
\* neither in ".tif" nor in ".tiff", whatever the list and its order were,
\* and every entry whose suffix does end in ".tif" or ".tiff" is kept.
C30_FilterComplete ==
    legacy_pc = "sorted" =>
        /\ \A k \in DOMAIN presuflist : IsTiffSuffix(presuflist[k][2])
        /\ \A k \in DOMAIN PresufBefore :
              IsTiffSuffix(PresufBefore[k][2]) =>
                  \E j \in DOMAIN presuflist : presuflist[j] = PresufBefore[k]

\* What holds of the loop: every TIFF entry is kept, and the non-TIFF
\* entries left over are exactly those that came right after a removed
\* one; a list without two neighbouring non-TIFF entries is filtered fully.
C30_TiffKept ==
    legacy_pc = "sorted" =>
        \A k \in DOMAIN PresufBefore :
            IsTiffSuffix(PresufBefore[k][2]) =>
                \E j \in DOMAIN presuflist : presuflist[j] = PresufBefore[k]

C30_CompleteWithoutNeighbours ==
    (/\ legacy_pc = "sorted"
     /\ \A k \in 1..(Len(PresufBefore) - 1) :
           IsTiffSuffix(PresufBefore[k][2]) \/ IsTiffSuffix(PresufBefore[k + 1][2])) =>
        \A k \in DOMAIN presuflist : IsTiffSuffix(presuflist[k][2])

\* The final list is in ascending order.
C30_Sorted ==
    legacy_pc = "sorted" =>
        \A k \in 1..(Len(presuflist) - 1) : PresufLess(presuflist[k], presuflist[k + 1])

====
